---------------------------- MODULE Spec2Model ----------------------------
(***************************************************************************)
(* TransmiBot: the streaming bridge (app/agents/transmi_agent/agent.py:    *)
(* _run_agent_sync on a worker thread, invoke_agent as the async           *)
(* generator over an asyncio.Queue) and the chat turn controller           *)
(* (app/telegram/handlers.py: handle_text with its two Presenter loops).   *)
(*                                                                         *)
(* Two specifications share the module:                                    *)
(*   Spec      one invoke_agent stream, its worker thread, and a consumer  *)
(*             that reads and closes the generator in any order;           *)
(*   SpecTurn  one handle_text turn with its animation and typing tasks.   *)
(* Texts are sequences of one-character strings so that str.strip and      *)
(* "\n\n".join are computed, not assumed.                                  *)
(***************************************************************************)
EXTENDS Naturals, Sequences, FiniteSets

VARIABLES
    \* ---- Event Source (google.adk Runner.run, an opaque collaborator)
    fed,              \* the events the worker has pulled so far, in order
    \* ---- worker thread: _run_agent_sync
    wpc,              \* position of the worker thread
    werr,             \* the worker ended by raising
    previous_message, \* agent.py:161 (NoneMsg or <<text>>)
    final_answer,     \* agent.py:154 (NoneMsg or <<text>>)
    wevent,           \* the event being processed while _emit blocks
    wput,             \* the queue.put coroutine handed to the loop, not yet run
    userCtx,          \* thread-local _context.telegram_id of the worker thread
    \* ---- invoke_agent arguments
    phone_number, use_telegram_tools,
    \* ---- event loop side: invoke_agent generator and its consumer
    sessionExists,    \* session_service holds (APP_NAME, USER_ID, SESSION_ID)
    message_queue,    \* asyncio.Queue contents, head first
    gen,              \* state of the async generator object
    call,             \* the consumer's call in progress on the generator
    lastResult,       \* how the consumer's latest call on the generator ended
    received,         \* chunks the consumer's reads returned, in order
    endKind,          \* how a read saw the stream end
    \* ---- history (observation only)
    emitted,          \* chunks handed to _emit, in order
    sentinels,        \* sentinel puts handed to the loop
    joins,            \* completed awaits of worker_task
    closeCalls,       \* aclose() calls made
    closeReturns,     \* aclose() calls that have finished
    closedMidFlight,  \* some aclose() was called while the worker was running
    srcEnd,           \* how the iteration over the Event Source ended
    \* ---- handle_text turn
    htpc,             \* position of handle_text
    stop_event,       \* asyncio.Event of the turn
    animpc, frame_index, last_text, animEdits,
    typingpc, typingCalls,
    status_text,      \* what the status message displays (NoMsg before it exists)
    chat,             \* every write to the chat, in order
    dbLog,            \* rows the logging sink committed
    update,           \* the Telegram update handed to handle_text
    turnSource,       \* the Event Source run the turn's agent call would consume
    \* ---- TomTom service call (app/services/tomtom.py)
    tfn,              \* the service function called
    tpc,              \* position of the call
    origin_text,      \* address argument (origin of a route)
    destination_text, \* destination argument of a route
    tomtom_api_key,   \* settings.tomtom_api_key is configured
    origin_geo,       \* get_route_traffic_summary's origin_geo
    dest_geo,         \* get_route_traffic_summary's dest_geo
    requests,         \* HTTP requests sent, in order
    tresult,          \* what the call returned (or that it raised)
    \* ---- worker of a second stream (another invoke_agent call)
    w2pc,              \* position of the second worker
    fed2,              \* the events the second worker has pulled
    previous_message2, \* agent.py:161 in the second worker
    emitted2,          \* chunks the second worker handed to _emit
    \* ---- session service shared by all invoke_agent calls (agent.py:76)
    session_service,   \* InMemorySessionService: session key -> stored session
    ipc,               \* position of each invoke_agent call
    ensureLog,         \* what each _ensure_session call logged, in order
    \* ---- a crud operation under _with_session (app/db/crud.py)
    crpc,              \* position of the wrapper
    crcall,            \* the wrapped function and its arguments
    orm,               \* the SQLAlchemy session: open flag and pending writes
    db,                \* rows the database holds (committed), in order
    crout,             \* what the caller got: result, raised
    crhist,            \* history of the call: rows before, writes made, closes
    \* ---- a Telegram tool wrapper call (agents/transmi_agent/tools_telegram.py)
    context,           \* _context.telegram_id of each thread ("unset": no attribute)
    tlpc,              \* position of the wrapper
    tlcall,            \* the tool called and the thread that runs it
    tlid,              \* the wrapper's local telegram_id
    tlbase,            \* what the base tool returned
    tlreturned,        \* what the wrapper returned
    logAttempts,       \* log calls the wrapper made in this call, with outcome
    \* ---- main() and its health server (app/main.py, app/health.py)
    mpc,               \* position of main
    webhook_mode,      \* settings.telegram_webhook_url is set
    health_server,     \* main's local: "None" or "started"
    hs,                \* the HealthServer object: event, server, socket, thread
    stoppc,            \* position of a stop() call in progress
    stopcaller,        \* who called the stop() in progress
    hcalls,            \* history: stop calls, shutdown/server_close/join calls
    mexit              \* the run's outcome and how main ended

streamVars == <<fed, wpc, werr, previous_message, final_answer, wevent, wput, userCtx,
                phone_number, use_telegram_tools, sessionExists, message_queue, gen,
                call, lastResult, received, endKind, emitted, sentinels, joins,
                closeCalls, closeReturns, closedMidFlight, srcEnd>>

turnVars == <<htpc, stop_event, animpc, frame_index, last_text, animEdits,
              typingpc, typingCalls, status_text, chat, dbLog, update, turnSource>>

tomtomVars == <<tfn, tpc, origin_text, destination_text, tomtom_api_key, origin_geo,
                dest_geo, requests, tresult>>

stream2Vars == <<w2pc, fed2, previous_message2, emitted2>>

sessVars == <<session_service, ipc, ensureLog>>

crudVars == <<crpc, crcall, orm, db, crout, crhist>>

toolVars == <<context, tlpc, tlcall, tlid, tlbase, tlreturned, logAttempts>>

healthVars == <<mpc, webhook_mode, health_server, hs, stoppc, stopcaller, hcalls, mexit>>

auxVars == <<sessVars, crudVars, toolVars, healthVars>>

vars == <<streamVars, turnVars, tomtomVars, stream2Vars, auxVars>>

-----------------------------------------------------------------------------
(* Bounds of the model *)

\* events one Event Source run yields at most
MaxEvents == 3
\* aclose() calls the consumer makes at most
MaxCloses == 2
\* edit calls the animation loop is followed for
MaxAnimEdits == 2
\* typing calls the heartbeat loop is followed for
MaxTyping == 2
\* invoke_agent calls sharing the session service
MaxCalls == 3
\* events the runners append to the stored session at most
MaxSessionEvents == 2
\* crud operations called one after the other
MaxCrudCalls == 2
\* stop() calls made on one HealthServer
MaxStops == 3

-----------------------------------------------------------------------------
(* Texts *)

Whitespace == {" ", "\n"}

RECURSIVE LStrip(_)
LStrip(s) == IF s /= <<>> /\ Head(s) \in Whitespace THEN LStrip(Tail(s)) ELSE s

RECURSIVE RStrip(_)
RStrip(s) ==
    IF s /= <<>> /\ s[Len(s)] \in Whitespace THEN RStrip(SubSeq(s, 1, Len(s) - 1)) ELSE s

\* str.strip()
Strip(s) == RStrip(LStrip(s))

\* the separator of "\n\n".join
JoinSep == <<"\n", "\n">>

RECURSIVE Join(_)
Join(segs) ==
    IF segs = <<>> THEN <<>>
    ELSE IF Len(segs) = 1 THEN segs[1]
    ELSE segs[1] \o JoinSep \o Join(Tail(segs))

\* Optional[str]: None is <<>>, a string s is <<s>>
NoneMsg == <<>>
Some(s) == <<s>>

-----------------------------------------------------------------------------
(* Turn Events *)

\* a part whose text attribute is a str
TextPart(s) == [isStr |-> TRUE, text |-> s]
\* a part with no text (a function call, a function response)
NonTextPart == [isStr |-> FALSE, text |-> <<>>]

Event(hasContent, parts, final) ==
    [content |-> hasContent, parts |-> parts, final |-> final]

EventSet ==
    { Event(FALSE, <<>>, TRUE),                              \* final marker, no content
      Event(TRUE, <<TextPart(<<" ">>)>>, TRUE),              \* final, blank text
      Event(TRUE, <<NonTextPart>>, FALSE),                   \* tool call, no text
      Event(TRUE, <<TextPart(<<"a">>)>>, FALSE),
      Event(TRUE, <<TextPart(<<" ", "a", "\n">>)>>, FALSE),  \* "a" once trimmed
      Event(TRUE, <<TextPart(<<"a">>)>>, TRUE),
      Event(TRUE, <<TextPart(<<"b">>)>>, TRUE),
      Event(TRUE, <<TextPart(<<"a">>), NonTextPart, TextPart(<<" ">>),
                    TextPart(<<"b">>)>>, FALSE) }

RECURSIVE TextSegments(_)
TextSegments(parts) ==
    IF parts = <<>> THEN <<>>
    ELSE LET p == Head(parts)
             rest == TextSegments(Tail(parts))
         IN IF p.isStr /\ Strip(p.text) /= <<>> THEN <<Strip(p.text)>> \o rest ELSE rest

\* the text_segments of an event; <<>> when the loop body hits a continue
EventSegments(e) == IF e.content THEN TextSegments(e.parts) ELSE <<>>

\* (mutation of MessageText: only the first text segment is used)
MessageTextFirstSegment(e) ==
    IF EventSegments(e) = <<>> THEN <<>> ELSE EventSegments(e)[1]

\* line 181: message_text = "\n\n".join(text_segments)
MessageText(e) == Join(EventSegments(e))


-----------------------------------------------------------------------------
(* Hand-off channel *)

Chunk(text) == [kind |-> "chunk", text |-> text]
\* the None that ends the stream
Sentinel == [kind |-> "end", text |-> <<>>]

\* (mutation of Enqueue: the item is put at the head)
EnqueueAtHead(q, item) == <<item>> \o q

\* asyncio.Queue.put on the unbounded queue: the item joins the tail
Enqueue(q, item) == Append(q, item)

\* (mutation of ShouldEmit: every non-empty text is emitted)
ShouldEmitAlways(prev, text) == TRUE

\* the dedup test of the worker loop, line 183
ShouldEmit(prev, text) == prev /= Some(text)

\* "if use_telegram_tools and phone_number": None and "" are falsy
PhoneSet == {"none", "", "300"}
Truthy(p) == p \notin {"none", ""}

-----------------------------------------------------------------------------
(* _run_agent_sync, on the worker thread *)

\* lines 142-152: set the thread-local user context, build the content, call
\* active_runner.run(...). The call is made before the try block is entered.
W_Start ==
    /\ wpc = "start"
    /\ userCtx' = IF use_telegram_tools /\ Truthy(phone_number)
                  THEN phone_number ELSE userCtx
    /\ \/ /\ wpc' = "loop"
          /\ UNCHANGED werr
       \/ \* run(...) raises: the exception leaves _run_agent_sync at line 148
          /\ wpc' = "done"
          /\ werr' = TRUE
    /\ UNCHANGED <<fed, previous_message, final_answer, wevent, wput, phone_number,
                   use_telegram_tools, sessionExists, message_queue, gen, call,
                   lastResult, received, endKind, emitted, sentinels, joins,
                   closeCalls, closeReturns, closedMidFlight, srcEnd>>
    /\ UNCHANGED <<turnVars, tomtomVars, stream2Vars, auxVars>>

\* (mutation of NoFinalResponse: the check of lines 190-191 is missing)
NoFinalResponseIgnored(answer) == FALSE

\* lines 190-191: "if final_answer is None: raise RuntimeError(...)"
NoFinalResponse(answer) == answer = NoneMsg

\* one turn of "for event in events" (lines 163-188) up to the point where it
\* blocks in _emit, or the end of the loop (lines 190-191)
W_Next ==
    /\ wpc = "loop"
    /\ \/ \E e \in EventSet :
            /\ Len(fed) < MaxEvents
            /\ fed' = Append(fed, e)
            /\ IF EventSegments(e) = <<>>
               THEN \* continue (line 166 or line 179)
                    UNCHANGED <<wpc, wput, wevent, emitted, final_answer>>
               ELSE IF ShouldEmit(previous_message, MessageText(e))
               THEN \* _emit: run_coroutine_threadsafe(queue.put(message), loop)
                    /\ wput' = <<Chunk(MessageText(e))>>
                    /\ emitted' = Append(emitted, MessageText(e))
                    /\ wevent' = <<e>>
                    /\ wpc' = "emit_wait"
                    /\ UNCHANGED final_answer
               ELSE /\ final_answer' = IF e.final THEN Some(MessageText(e))
                                       ELSE final_answer
                    /\ UNCHANGED <<wpc, wput, wevent, emitted>>
            /\ UNCHANGED <<werr, srcEnd>>
       \/ \* the iterator is exhausted; line 190 raises when nothing was final
          /\ werr' = NoFinalResponse(final_answer)
          /\ wpc' = "finally"
          /\ srcEnd' = "exhausted"
          /\ UNCHANGED <<fed, wput, wevent, emitted, final_answer>>
       \/ \* the Event Source raises from next(), or the loop body raises on the
          \* event pulled (line 171 when content.parts is None)
          /\ werr' = TRUE
          /\ wpc' = "finally"
          /\ srcEnd' = "raised"
          /\ UNCHANGED <<fed, wput, wevent, emitted, final_answer>>
    /\ UNCHANGED <<previous_message, userCtx, phone_number, use_telegram_tools,
                   sessionExists, message_queue, gen, call, lastResult, received,
                   endKind, sentinels, joins, closeCalls, closeReturns,
                   closedMidFlight>>
    /\ UNCHANGED <<turnVars, tomtomVars, stream2Vars, auxVars>>

\* (mutation of PutDone: the worker does not wait for the future's result)
PutNotAwaited(put) == TRUE

\* future.result() of lines 158 and 194 returns once the loop has run the
\* queue.put coroutine handed over with run_coroutine_threadsafe
PutDone(put) == put = <<>>

\* future.result() of _emit returned: lines 185-188
W_AfterEmit ==
    /\ wpc = "emit_wait"
    /\ PutDone(wput)
    /\ previous_message' = Some(MessageText(wevent[1]))
    /\ final_answer' = IF wevent[1].final THEN Some(MessageText(wevent[1]))
                       ELSE final_answer
    /\ wevent' = <<>>
    /\ wpc' = "loop"
    /\ UNCHANGED <<fed, werr, wput, userCtx, phone_number, use_telegram_tools,
                   sessionExists, message_queue, gen, call, lastResult, received,
                   endKind, emitted, sentinels, joins, closeCalls, closeReturns,
                   closedMidFlight, srcEnd>>
    /\ UNCHANGED <<turnVars, tomtomVars, stream2Vars, auxVars>>

\* the finally block, line 194: hand queue.put(None) to the loop
W_Finally ==
    /\ wpc = "finally"
    /\ wput' = <<Sentinel>>
    /\ sentinels' = sentinels + 1
    /\ wpc' = "sentinel_wait"
    /\ UNCHANGED <<fed, werr, previous_message, final_answer, wevent, userCtx,
                   phone_number, use_telegram_tools, sessionExists, message_queue, gen,
                   call, lastResult, received, endKind, emitted, joins, closeCalls,
                   closeReturns, closedMidFlight, srcEnd>>
    /\ UNCHANGED <<turnVars, tomtomVars, stream2Vars, auxVars>>

\* .result() of line 194 returned: the thread function returns or re-raises
W_Return ==
    /\ wpc = "sentinel_wait"
    /\ PutDone(wput)
    /\ wpc' = "done"
    /\ UNCHANGED <<fed, werr, previous_message, final_answer, wevent, wput, userCtx,
                   phone_number, use_telegram_tools, sessionExists, message_queue, gen,
                   call, lastResult, received, endKind, emitted, sentinels, joins,
                   closeCalls, closeReturns, closedMidFlight, srcEnd>>
    /\ UNCHANGED <<turnVars, tomtomVars, stream2Vars, auxVars>>

\* the event loop runs the queue.put coroutine a worker handed over with
\* run_coroutine_threadsafe (lines 157 and 194)
LoopPut ==
    /\ wput /= <<>>
    /\ message_queue' = Enqueue(message_queue, wput[1])
    /\ wput' = <<>>
    /\ UNCHANGED <<fed, wpc, werr, previous_message, final_answer, wevent, userCtx,
                   phone_number, use_telegram_tools, sessionExists, gen, call,
                   lastResult, received, endKind, emitted, sentinels, joins,
                   closeCalls, closeReturns, closedMidFlight, srcEnd>>
    /\ UNCHANGED <<turnVars, tomtomVars, stream2Vars, auxVars>>

-----------------------------------------------------------------------------
(* invoke_agent, the async generator, and its consumer *)

\* (mutation of WorkerTaskDone: the finally block does not wait for the thread)
WorkerTaskNotAwaited == TRUE

\* "await worker_task" can return once the thread function has ended
WorkerTaskDone == wpc = "done"

\* (mutation of AcloseRunsFinally: a finished generator runs its finally again)
AcloseRunsFinallyAgain(g) == g \in {"at_yield", "closed"}

\* aclose() throws GeneratorExit into a generator suspended at its yield, which
\* runs the finally block; a generator never started or already finished runs
\* nothing
AcloseRunsFinally(g) == g = "at_yield"

\* the consumer calls __anext__()
Anext ==
    /\ call = "none"
    /\ \/ \* first read: lines 210-227 run up to the first queue.get()
          /\ gen = "created"
          /\ sessionExists' = TRUE
          /\ wpc' = "start"
          /\ gen' = "waiting_get"
          /\ call' = "anext"
          /\ UNCHANGED lastResult
       \/ \* resume after the yield of line 230
          /\ gen = "at_yield"
          /\ gen' = "waiting_get"
          /\ call' = "anext"
          /\ UNCHANGED <<sessionExists, wpc, lastResult>>
       \/ \* a finished generator raises StopAsyncIteration at once
          /\ gen = "closed"
          /\ lastResult' = "stop"
          /\ UNCHANGED <<sessionExists, wpc, gen, call>>
    /\ UNCHANGED <<fed, werr, previous_message, final_answer, wevent, wput, userCtx,
                   phone_number, use_telegram_tools, message_queue, received, endKind,
                   emitted, sentinels, joins, closeCalls, closeReturns,
                   closedMidFlight, srcEnd>>
    /\ UNCHANGED <<turnVars, tomtomVars, stream2Vars, auxVars>>

\* "item = await message_queue.get()" returns: lines 227-230
G_Get ==
    /\ gen = "waiting_get"
    /\ message_queue /= <<>>
    /\ message_queue' = Tail(message_queue)
    /\ IF Head(message_queue) = Sentinel
       THEN \* break, then the finally block awaits worker_task
            /\ gen' = "joining"
            /\ UNCHANGED <<call, lastResult, received>>
       ELSE \* yield item
            /\ gen' = "at_yield"
            /\ received' = Append(received, Head(message_queue).text)
            /\ lastResult' = "chunk"
            /\ call' = "none"
    /\ UNCHANGED <<fed, wpc, werr, previous_message, final_answer, wevent, wput,
                   userCtx, phone_number, use_telegram_tools, sessionExists, endKind,
                   emitted, sentinels, joins, closeCalls, closeReturns,
                   closedMidFlight, srcEnd>>
    /\ UNCHANGED <<turnVars, tomtomVars, stream2Vars, auxVars>>

\* "await worker_task" of line 232 returns or raises the worker's exception
G_Join ==
    /\ gen = "joining"
    /\ WorkerTaskDone
    /\ gen' = "closed"
    /\ joins' = joins + 1
    /\ lastResult' = IF werr THEN "error"
                     ELSE IF call = "anext" THEN "stop" ELSE "closed"
    /\ endKind' = IF call = "anext" THEN (IF werr THEN "error" ELSE "clean")
                  ELSE endKind
    /\ closeReturns' = IF call = "aclose" THEN closeReturns + 1 ELSE closeReturns
    /\ call' = "none"
    /\ UNCHANGED <<fed, wpc, werr, previous_message, final_answer, wevent, wput,
                   userCtx, phone_number, use_telegram_tools, sessionExists,
                   message_queue, received, emitted, sentinels, closeCalls,
                   closedMidFlight, srcEnd>>
    /\ UNCHANGED <<turnVars, tomtomVars, stream2Vars, auxVars>>

\* the consumer calls aclose()
Aclose ==
    /\ call = "none"
    /\ closeCalls < MaxCloses
    /\ closeCalls' = closeCalls + 1
    /\ IF AcloseRunsFinally(gen)
       THEN /\ gen' = "joining"
            /\ call' = "aclose"
            /\ closedMidFlight' = (closedMidFlight \/ wpc /= "done")
            /\ UNCHANGED <<lastResult, closeReturns>>
       ELSE /\ gen' = "closed"
            /\ lastResult' = "closed"
            /\ closeReturns' = closeReturns + 1
            /\ UNCHANGED <<call, closedMidFlight>>
    /\ UNCHANGED <<fed, wpc, werr, previous_message, final_answer, wevent, wput,
                   userCtx, phone_number, use_telegram_tools, sessionExists,
                   message_queue, received, endKind, emitted, sentinels, joins,
                   srcEnd>>
    /\ UNCHANGED <<turnVars, tomtomVars, stream2Vars, auxVars>>

-----------------------------------------------------------------------------
(* Chat texts *)

NoMsg == <<>>

\* animation_frames = ["⏳", "⌛"], shown as "Procesando <frame>"
AnimationFrames == <<"hourglass_done", "hourglass_flowing">>
Procesando(i) == [kind |-> "frame", text |-> <<AnimationFrames[i + 1]>>]

\* "Lo siento, ocurrio un error al consultar al agente. ..."
FailureText == [kind |-> "failure", text |-> <<>>]

\* a chunk of the stream as a chat text
ChunkText(t) == [kind |-> "chunk", text |-> t]

\* one call on the chat transport
ChatCall(op, by, text, outcome) ==
    [op |-> op, by |-> by, text |-> text, outcome |-> outcome]

-----------------------------------------------------------------------------
(* The Event Source run of a turn *)

Source(events, raises) == [events |-> events, raises |-> raises]

EvBlankFinal == Event(TRUE, <<TextPart(<<" ">>)>>, TRUE)
EvA == Event(TRUE, <<TextPart(<<"a">>)>>, FALSE)
EvBFinal == Event(TRUE, <<TextPart(<<"b">>)>>, TRUE)

\* section 8 of the specification: ["processing...", "processing...",
\* "Route is 5 km, 12 min" (final)], with "a" and "b" for the two texts
ScenarioSource == Source(<<EvA, EvA, EvBFinal>>, FALSE)

TurnSources ==
    { Source(<<>>, FALSE),              \* zero events
      Source(<<EvBlankFinal>>, FALSE),  \* one final event, empty once trimmed
      Source(<<>>, TRUE),               \* raises at once
      Source(<<EvA>>, TRUE),            \* raises after one chunk
      ScenarioSource }

\* the chunks _run_agent_sync emits for a sequence of events (lines 161-185)
RECURSIVE ChunksFrom(_, _)
ChunksFrom(prev, events) ==
    IF events = <<>> THEN <<>>
    ELSE LET e == Head(events)
         IN IF EventSegments(e) = <<>> THEN ChunksFrom(prev, Tail(events))
            ELSE IF ShouldEmit(prev, MessageText(e))
            THEN <<MessageText(e)>> \o ChunksFrom(Some(MessageText(e)), Tail(events))
            ELSE ChunksFrom(prev, Tail(events))

SourceChunks(src) == ChunksFrom(NoneMsg, src.events)

-----------------------------------------------------------------------------
(* handle_text, and the call that opens the stream *)

\* async def invoke_agent(query, phone_number=None, use_telegram_tools=False)
InvokeAgentParams == {"query", "phone_number", "use_telegram_tools"}

\* invoke_agent(update.message.text, telegram_id=telegram_id, use_telegram_tools=True):
\* the first argument binds query by position
HandleTextCallArgs == {"query", "telegram_id", "use_telegram_tools"}

\* Python binds the arguments when the generator function is called; a keyword
\* that names no parameter raises TypeError from the call itself
BindsCall(args, params) == args \subseteq params

UpdateSet == [message : BOOLEAN, telegram_id : {0, 42}]

\* lines 111-121: where handle_text continues after the upsert; the except
\* branch only logs
AfterUpsert(ok) == "log_user"

\* (mutation of AfterUserRecord: the except branch of lines 132-133 is missing)
RecordFailureRaises(ok) == IF ok THEN "placeholder" ELSE "raised"

\* lines 124-135: where handle_text continues after recording the user's
\* message; the except branch only logs
AfterUserRecord(ok) == "placeholder"

\* (mutation of RejectsUpdate: only a missing message is rejected)
RejectsUpdateWithoutMessage(u) == ~u.message

\* the guards of lines 93-103: `update.message is None`, then `not telegram_id`
\* (telegram_id 0 stands for a missing user and for a falsy id)
RejectsUpdate(u) == ~u.message \/ u.telegram_id = 0

\* lines 93-121: the two early returns, then the user upsert, whose failure
\* is swallowed
HT_Entry ==
    /\ htpc = "entry"
    /\ IF RejectsUpdate(update)
       THEN /\ htpc' = "returned"
            /\ UNCHANGED dbLog
       ELSE \E ok \in BOOLEAN :
                 /\ dbLog' = IF ok THEN Append(dbLog, "user") ELSE dbLog
                 /\ htpc' = AfterUpsert(ok)
    /\ UNCHANGED <<stop_event, animpc, frame_index, last_text, animEdits, typingpc,
                   typingCalls, status_text, chat, update, turnSource>>
    /\ UNCHANGED <<streamVars, tomtomVars, stream2Vars, auxVars>>

\* lines 124-133: record the user's message, failure swallowed
HT_LogUser ==
    /\ htpc = "log_user"
    /\ \E ok \in BOOLEAN :
         /\ dbLog' = IF ok THEN Append(dbLog, "user_message") ELSE dbLog
         /\ htpc' = AfterUserRecord(ok)
    /\ UNCHANGED <<stop_event, animpc, frame_index, last_text, animEdits, typingpc,
                   typingCalls, status_text, chat, update, turnSource>>
    /\ UNCHANGED <<streamVars, tomtomVars, stream2Vars, auxVars>>

\* str(exc) of an exception raised during the turn
ExceptionText(exc) == [kind |-> "exception", text |-> <<exc>>]

\* (mutation of HandleError: the error handler reports the exception to the chat)
HandleErrorReplies(c, exc) ==
    Append(c, ChatCall("send", "handler", ExceptionText(exc), "ok"))

\* handle_error, lines 88-89, registered as the application's error handler:
\* it receives the exception that left a handler and only logs it
HandleError(c, exc) == c

\* line 135: post the placeholder; a transport error leaves handle_text
HT_Placeholder ==
    /\ htpc = "placeholder"
    /\ \/ /\ status_text' = Procesando(0)
          /\ chat' = Append(chat, ChatCall("send", "handler", Procesando(0), "ok"))
          /\ htpc' = "posted"
       \/ /\ chat' = HandleError(
                        Append(chat, ChatCall("send", "handler", Procesando(0), "error")),
                        "TelegramError")
          /\ htpc' = "raised"
          /\ UNCHANGED status_text
    /\ UNCHANGED <<stop_event, animpc, frame_index, last_text, animEdits, typingpc,
                   typingCalls, dbLog, update, turnSource>>
    /\ UNCHANGED <<streamVars, tomtomVars, stream2Vars, auxVars>>

\* lines 137-187, which hold no await: create the stop event and the two
\* tasks, then call invoke_agent. Lines 189-274 run only if the call returns
\* a generator.
HT_StartPresenterAndOpen ==
    /\ htpc = "posted"
    /\ stop_event' = FALSE
    /\ animpc' = "sleep"
    /\ frame_index' = 1
    /\ last_text' = Procesando(0)
    /\ typingpc' = "loop"
    /\ IF BindsCall(HandleTextCallArgs, InvokeAgentParams)
       THEN /\ htpc' = "first_read"
            /\ gen' = "created"
            /\ UNCHANGED chat
       ELSE \* TypeError: unexpected keyword argument
            /\ htpc' = "raised"
            /\ chat' = HandleError(chat, "TypeError")
            /\ UNCHANGED gen
    /\ UNCHANGED <<animEdits, typingCalls, status_text, dbLog, update, turnSource>>
    /\ UNCHANGED <<fed, wpc, werr, previous_message, final_answer, wevent, wput,
                   userCtx, phone_number, use_telegram_tools, sessionExists,
                   message_queue, call, lastResult, received, endKind, emitted,
                   sentinels, joins, closeCalls, closeReturns, closedMidFlight, srcEnd>>
    /\ UNCHANGED <<tomtomVars, stream2Vars, auxVars>>

-----------------------------------------------------------------------------
(* Status Presenter: animate_status_message and send_typing_action *)

EditOutcomes == {"ok", "not_modified", "bad_request", "error"}

\* (mutation of LastTextAfterEdit: last_text is not updated after an edit)
LastTextNotUpdated(new_text, old_text) == old_text

\* line 153, after edit_text returned: last_text = new_text
LastTextAfterEdit(new_text, old_text) == new_text

\* (mutation of AnimAfterEditError: an error outside the "not modified" class
\* ends the loop)
AnimExitsOnOtherError(outcome) ==
    IF outcome \in {"not_modified", "bad_request"} THEN "sleep" ELSE "done"

\* lines 156-168: every except branch sleeps one second and goes round the
\* while loop again
AnimAfterEditError(outcome) == "sleep"

\* asyncio.sleep of lines 141, 155, 161, 164, 168 returns
Anim_Wake ==
    /\ animpc = "sleep"
    /\ animpc' = "loop"
    /\ UNCHANGED <<htpc, stop_event, frame_index, last_text, animEdits, typingpc,
                   typingCalls, status_text, chat, dbLog, update, turnSource>>
    /\ UNCHANGED <<streamVars, tomtomVars, stream2Vars, auxVars>>

\* one pass of the while loop, lines 147-168
Anim_Cycle ==
    /\ animpc = "loop"
    /\ IF stop_event
       THEN /\ animpc' = "done"
            /\ UNCHANGED <<frame_index, last_text, animEdits, status_text, chat>>
       ELSE LET new_text == Procesando(frame_index)
            IN IF new_text /= last_text
               THEN /\ animEdits < MaxAnimEdits
                    /\ animEdits' = animEdits + 1
                    /\ \E outcome \in EditOutcomes :
                         /\ chat' = Append(chat,
                                      ChatCall("edit", "animation", new_text, outcome))
                         /\ IF outcome = "ok"
                            THEN /\ status_text' = new_text
                                 /\ last_text' = LastTextAfterEdit(new_text, last_text)
                                 /\ frame_index' = (frame_index + 1) % Len(AnimationFrames)
                                 /\ animpc' = "sleep"
                            ELSE \* both BadRequest branches and the generic handler
                                 \* sleep and go round again
                                 /\ animpc' = AnimAfterEditError(outcome)
                                 /\ UNCHANGED <<status_text, last_text, frame_index>>
               ELSE /\ frame_index' = (frame_index + 1) % Len(AnimationFrames)
                    /\ animpc' = "sleep"
                    /\ UNCHANGED <<last_text, animEdits, status_text, chat>>
    /\ UNCHANGED <<htpc, stop_event, typingpc, typingCalls, dbLog, update, turnSource>>
    /\ UNCHANGED <<streamVars, tomtomVars, stream2Vars, auxVars>>

\* (mutation of TypingAfter: the except branch does not return)
TypingKeepsLooping(ok) == "sleep"

\* lines 173-177: after send_chat_action the loop sleeps; on any exception it
\* logs a warning and returns
TypingAfter(ok) == IF ok THEN "sleep" ELSE "done"

\* one pass of send_typing_action, lines 171-177
Typing_Cycle ==
    /\ typingpc = "loop"
    /\ IF stop_event
       THEN /\ typingpc' = "done"
            /\ UNCHANGED <<typingCalls, chat>>
       ELSE /\ typingCalls < MaxTyping
            /\ typingCalls' = typingCalls + 1
            /\ \E ok \in BOOLEAN :
                 /\ chat' = Append(chat, ChatCall("typing", "heartbeat", NoMsg,
                                                  IF ok THEN "ok" ELSE "error"))
                 /\ typingpc' = TypingAfter(ok)
    /\ UNCHANGED <<htpc, stop_event, animpc, frame_index, last_text, animEdits,
                   status_text, dbLog, update, turnSource>>
    /\ UNCHANGED <<streamVars, tomtomVars, stream2Vars, auxVars>>

\* asyncio.sleep(4) of line 174 returns
Typing_Wake ==
    /\ typingpc = "sleep"
    /\ typingpc' = "loop"
    /\ UNCHANGED <<htpc, stop_event, animpc, frame_index, last_text, animEdits,
                   typingCalls, status_text, chat, dbLog, update, turnSource>>
    /\ UNCHANGED <<streamVars, tomtomVars, stream2Vars, auxVars>>

-----------------------------------------------------------------------------
(* TomTom service functions: app/services/tomtom.py *)

\* no value returned yet (Python's None)
NoResult == [status |-> "none", error_type |-> "", coordinates |-> <<>>]

\* _error_response, lines 34-39
ErrorResponse(error_type) ==
    [status |-> "error", error_type |-> error_type, coordinates |-> <<>>]

\* lines 124-127: the success result of _geocode_address
GeoSuccess(query) == [status |-> "success", error_type |-> "", coordinates |-> query]

\* lines 239-255: the success result of get_route_traffic_summary
RouteSuccess(origin_coords, dest_coords) ==
    [status |-> "success", error_type |-> "", coordinates |-> origin_coords \o dest_coords]

\* the call did not return: the exception left the function
Raised(exc) == [status |-> "raised", error_type |-> exc, coordinates |-> <<>>]

\* addresses a caller may pass
AddressSet == {<<>>, <<" ">>, <<"a">>, <<" ", "b", " ">>}

\* _validate_string, lines 42-46: None when the value has a non-blank character
ValidateString(value) ==
    IF value = <<>> \/ Strip(value) = <<>> THEN ErrorResponse("validation") ELSE NoResult

\* _get_api_key, lines 49-58
GetApiKey(configured) ==
    IF configured THEN NoResult ELSE ErrorResponse("configuration")

\* what an HTTP GET of the Search API can come to: a transport error, an error
\* status, or a 2xx response whose body is not JSON, is JSON but not an
\* object, has no results, has a first result that is not an object, has no
\* position, or has a position
SearchOutcomes == {"request_error", "http_status_error", "invalid_json",
                   "json_not_object", "no_results", "result_not_object",
                   "no_position", "found"}

\* what an HTTP GET of the Routing API can come to
RouteOutcomes == {"request_error", "http_status_error", "invalid_json",
                  "json_not_object", "no_routes", "route_not_object",
                  "invalid_summary", "route"}

\* _make_request, lines 61-77: the two httpx exceptions become error results
MakeRequest(outcome) ==
    IF outcome = "request_error" THEN ErrorResponse("network")
    ELSE IF outcome = "http_status_error" THEN ErrorResponse("http")
    ELSE NoResult

\* _geocode_address after its request was sent, lines 100-127
GeocodeResponse(query, outcome) ==
    IF MakeRequest(outcome) /= NoResult THEN MakeRequest(outcome)
    ELSE IF outcome = "invalid_json" THEN ErrorResponse("parse")
    \* line 111: data.get on a value that is not a dict
    ELSE IF outcome = "json_not_object" THEN Raised("AttributeError")
    ELSE IF outcome = "no_results" THEN ErrorResponse("not_found")
    \* line 116: results[0].get on a value that is not a dict
    ELSE IF outcome = "result_not_object" THEN Raised("AttributeError")
    ELSE IF outcome = "no_position" THEN ErrorResponse("parse")
    ELSE GeoSuccess(query)

\* _geocode_address sends its request: the address passed validation and the
\* API key is configured (lines 88-93)
GeocodeSends(address, configured) ==
    ValidateString(address) = NoResult /\ GetApiKey(configured) = NoResult

\* _geocode_address, lines 80-127
GeocodeAddress(address, configured, outcome) ==
    IF ValidateString(address) /= NoResult THEN ValidateString(address)
    ELSE IF GetApiKey(configured) /= NoResult THEN GetApiKey(configured)
    ELSE GeocodeResponse(Strip(address), outcome)

\* the request _geocode_address sends, lines 95-100
SearchRequest(address) == [api |-> "search", query |-> Strip(address)]

\* the request get_route_traffic_summary sends, lines 205-210
RouteRequest(origin_coords, dest_coords) ==
    [api |-> "route", query |-> origin_coords \o dest_coords]

\* _parse_route_data and the lines around it, 214-255
RouteResponse(origin_coords, dest_coords, outcome) ==
    IF MakeRequest(outcome) /= NoResult THEN MakeRequest(outcome)
    ELSE IF outcome = "invalid_json" THEN ErrorResponse("parse")
    \* line 132: data.get on a value that is not a dict
    ELSE IF outcome = "json_not_object" THEN Raised("AttributeError")
    ELSE IF outcome = "no_routes" THEN ErrorResponse("not_found")
    \* line 136: routes[0].get on a value that is not a dict
    ELSE IF outcome = "route_not_object" THEN Raised("AttributeError")
    ELSE IF outcome = "invalid_summary" THEN ErrorResponse("parse")
    ELSE RouteSuccess(origin_coords, dest_coords)

\* how a call ends with result r
EndOfCall(r) == IF r.status = "raised" THEN "raised" ELSE "returned"

\* a direct call of _geocode_address (lines 80-127)
GA_Call ==
    /\ tfn = "_geocode_address"
    /\ tpc = "entry"
    /\ \E outcome \in SearchOutcomes :
         LET r == GeocodeAddress(origin_text, tomtom_api_key, outcome)
         IN /\ tresult' = r
            /\ tpc' = EndOfCall(r)
    /\ requests' = IF GeocodeSends(origin_text, tomtom_api_key)
                   THEN Append(requests, SearchRequest(origin_text)) ELSE requests
    /\ UNCHANGED <<tfn, origin_text, destination_text, tomtom_api_key, origin_geo,
                   dest_geo>>
    /\ UNCHANGED <<streamVars, turnVars, stream2Vars, auxVars>>

\* get_route_traffic_summary, lines 178-182: validate both arguments
RT_Validate ==
    /\ tfn = "get_route_traffic_summary"
    /\ tpc = "entry"
    /\ IF ValidateString(origin_text) /= NoResult
       THEN tresult' = ValidateString(origin_text) /\ tpc' = "returned"
       ELSE IF ValidateString(destination_text) /= NoResult
       THEN tresult' = ValidateString(destination_text) /\ tpc' = "returned"
       ELSE tpc' = "geocode_origin" /\ UNCHANGED tresult
    /\ UNCHANGED <<tfn, origin_text, destination_text, tomtom_api_key, origin_geo,
                   dest_geo, requests>>
    /\ UNCHANGED <<streamVars, turnVars, stream2Vars, auxVars>>

\* lines 184-189: geocode the origin
RT_GeocodeOrigin ==
    /\ tpc = "geocode_origin"
    /\ \E outcome \in SearchOutcomes :
         LET r == GeocodeAddress(origin_text, tomtom_api_key, outcome)
         IN /\ origin_geo' = r
            /\ IF r.status = "raised"
               THEN tresult' = r /\ tpc' = "raised"
               ELSE IF r.status /= "success"
               THEN tresult' = ErrorResponse(r.error_type) /\ tpc' = "returned"
               ELSE tpc' = "geocode_dest" /\ UNCHANGED tresult
    /\ requests' = IF GeocodeSends(origin_text, tomtom_api_key)
                   THEN Append(requests, SearchRequest(origin_text)) ELSE requests
    /\ UNCHANGED <<tfn, origin_text, destination_text, tomtom_api_key, dest_geo>>
    /\ UNCHANGED <<streamVars, turnVars, stream2Vars, auxVars>>

\* lines 191-196: geocode the destination
RT_GeocodeDest ==
    /\ tpc = "geocode_dest"
    /\ \E outcome \in SearchOutcomes :
         LET r == GeocodeAddress(destination_text, tomtom_api_key, outcome)
         IN /\ dest_geo' = r
            /\ IF r.status = "raised"
               THEN tresult' = r /\ tpc' = "raised"
               ELSE IF r.status /= "success"
               THEN tresult' = ErrorResponse(r.error_type) /\ tpc' = "returned"
               ELSE tpc' = "route" /\ UNCHANGED tresult
    /\ requests' = IF GeocodeSends(destination_text, tomtom_api_key)
                   THEN Append(requests, SearchRequest(destination_text)) ELSE requests
    /\ UNCHANGED <<tfn, origin_text, destination_text, tomtom_api_key, origin_geo>>
    /\ UNCHANGED <<streamVars, turnVars, stream2Vars, auxVars>>

\* lines 198-255: request the route and summarise it
RT_Route ==
    /\ tpc = "route"
    /\ IF GetApiKey(tomtom_api_key) /= NoResult
       THEN /\ tresult' = GetApiKey(tomtom_api_key)
            /\ tpc' = "returned"
            /\ UNCHANGED requests
       ELSE /\ requests' = Append(requests,
                             RouteRequest(origin_geo.coordinates, dest_geo.coordinates))
            /\ \E outcome \in RouteOutcomes :
                 LET r == RouteResponse(origin_geo.coordinates, dest_geo.coordinates,
                                        outcome)
                 IN /\ tresult' = r
                    /\ tpc' = EndOfCall(r)
    /\ UNCHANGED <<tfn, origin_text, destination_text, tomtom_api_key, origin_geo,
                   dest_geo>>
    /\ UNCHANGED <<streamVars, turnVars, stream2Vars, auxVars>>

-----------------------------------------------------------------------------
(* The worker of a second invoke_agent call, given the events the first was given *)

\* (mutation of InitialPrevious: the last emitted text is shared by the workers)
InitialPreviousShared(other) == other

\* line 161: previous_message is a local of _run_agent_sync, None in every call
InitialPrevious(other) == NoneMsg

\* lines 160-161 in the second worker
W2_Start ==
    /\ w2pc = "none"
    /\ w2pc' = "loop"
    /\ previous_message2' = InitialPrevious(previous_message)
    /\ UNCHANGED <<fed2, emitted2>>
    /\ UNCHANGED <<streamVars, turnVars, tomtomVars, auxVars>>

\* one turn of the for loop (lines 163-185) in the second worker, on the
\* event the first worker's source yielded at the same position
W2_Next ==
    /\ w2pc = "loop"
    /\ Len(fed2) < Len(fed)
    /\ LET e == fed[Len(fed2) + 1]
       IN /\ fed2' = Append(fed2, e)
          /\ IF EventSegments(e) /= <<>> /\ ShouldEmit(previous_message2, MessageText(e))
             THEN /\ emitted2' = Append(emitted2, MessageText(e))
                  /\ previous_message2' = Some(MessageText(e))
             ELSE UNCHANGED <<emitted2, previous_message2>>
    /\ UNCHANGED w2pc
    /\ UNCHANGED <<streamVars, turnVars, tomtomVars, auxVars>>

\* the second worker's source ends where the first one's ended
W2_End ==
    /\ w2pc = "loop"
    /\ srcEnd /= "none"
    /\ Len(fed2) = Len(fed)
    /\ w2pc' = "done"
    /\ UNCHANGED <<fed2, previous_message2, emitted2>>
    /\ UNCHANGED <<streamVars, turnVars, tomtomVars, auxVars>>

-----------------------------------------------------------------------------
(* The session shared by every invoke_agent call: agent.py:72-98, 210 *)

APP_NAME == "agents"
USER_ID == "1234"
SESSION_ID == "session1234"

\* the one key every call uses (lines 81-85, 148-150)
SessionKey == <<APP_NAME, USER_ID, SESSION_ID>>

Callers == 1..MaxCalls

\* a session as create_session stores it: no events yet
NewSession == [events |-> 0]

\* session_service.create_session(app_name, user_id, session_id): stores a new
\* session, or raises AlreadyExistsError and leaves the stored one alone
CreateSession(store, key) ==
    IF key \in DOMAIN store
    THEN [store |-> store, raised |-> TRUE]
    ELSE [store |-> [k \in DOMAIN store \cup {key} |->
                        IF k = key THEN NewSession ELSE store[k]],
          raised |-> FALSE]

\* (mutation of EnsureSession: the session is stored anew on every call)
EnsureSessionRecreates(store) ==
    [store  |-> [k \in DOMAIN store \cup {SessionKey} |->
                    IF k = SessionKey THEN NewSession ELSE store[k]],
     logged |-> "created",
     raised |-> FALSE]

\* _ensure_session (lines 79-98): create_session inside try; AlreadyExistsError
\* is caught and logged at debug level, nothing is raised
EnsureSession(store) ==
    LET r == CreateSession(store, SessionKey)
    IN  [store  |-> r.store,
         logged |-> IF r.raised THEN "exists" ELSE "created",
         raised |-> FALSE]

\* the first read of call c runs `await _ensure_session()` (line 210); neither
\* _ensure_session nor the in-memory create_session suspends, so the loop runs
\* it in one step; then the worker of lines 214-223 is started
IA_Ensure(c) ==
    /\ ipc[c] = "created"
    /\ LET r == EnsureSession(session_service)
       IN  /\ session_service' = r.store
           /\ ensureLog' = Append(ensureLog, r.logged)
           /\ ipc' = [ipc EXCEPT ![c] = IF r.raised THEN "raised" ELSE "running"]
    /\ UNCHANGED <<streamVars, turnVars, tomtomVars, stream2Vars, crudVars, toolVars, healthVars>>

\* the runner of call c (lines 147-152) appends an event to the stored session
IA_SessionEvent(c) ==
    /\ ipc[c] = "running"
    /\ SessionKey \in DOMAIN session_service
    /\ session_service[SessionKey].events < MaxSessionEvents
    /\ session_service' = [session_service EXCEPT ![SessionKey].events = @ + 1]
    /\ UNCHANGED <<ipc, ensureLog>>
    /\ UNCHANGED <<streamVars, turnVars, tomtomVars, stream2Vars, crudVars, toolVars, healthVars>>

\* the stream of call c ends (lines 226-232)
IA_End(c) ==
    /\ ipc[c] = "running"
    /\ ipc' = [ipc EXCEPT ![c] = "done"]
    /\ UNCHANGED <<session_service, ensureLog>>
    /\ UNCHANGED <<streamVars, turnVars, tomtomVars, stream2Vars, crudVars, toolVars, healthVars>>

\* call c is closed before its first read: no line of invoke_agent runs
IA_CloseUnread(c) ==
    /\ ipc[c] = "created"
    /\ ipc' = [ipc EXCEPT ![c] = "closed"]
    /\ UNCHANGED <<session_service, ensureLog>>
    /\ UNCHANGED <<streamVars, turnVars, tomtomVars, stream2Vars, crudVars, toolVars, healthVars>>

-----------------------------------------------------------------------------
(* crud operations under _with_session: app/db/crud.py:11-109 *)

\* telegram_id arguments: None, or an id
NoId == <<>>
CrudIds == {NoId, <<42>>}

UserRow(id, name) == [kind |-> "user", telegram_id |-> id, username |-> name]

InteractionRow(id, text, role) ==
    [kind |-> "interaction", telegram_id |-> id, message_text |-> text, role |-> role]

\* `message_text or ""` (line 105)
TextOrEmpty(t) == IF t = "none" THEN "" ELSE t

\* select(User).where(User.telegram_id == telegram_id) finds a row
HasUser(rows, id) ==
    \E i \in 1..Len(rows) : rows[i].kind = "user" /\ rows[i].telegram_id = id

\* a write the session holds until commit: a row added, or a user's username set
Insert(row) == [op |-> "insert", row |-> row]
Update(id, name) == [op |-> "update", telegram_id |-> id, username |-> name]

ApplyWrite(rows, w) ==
    IF w.op = "insert"
    THEN Append(rows, w.row)
    ELSE [i \in 1..Len(rows) |->
            IF rows[i].kind = "user" /\ rows[i].telegram_id = w.telegram_id
            THEN [rows[i] EXCEPT !.username = w.username]
            ELSE rows[i]]

\* session.commit() that succeeds: every pending write reaches the database
RECURSIVE ApplyWrites(_, _)
ApplyWrites(rows, ws) ==
    IF ws = <<>> THEN rows ELSE ApplyWrites(ApplyWrite(rows, Head(ws)), Tail(ws))

\* the wrapped functions and their arguments
CrudCalls ==
    [fn : {"get_or_create_user_by_telegram_id"}, telegram_id : CrudIds,
     username : {"none", "ana"}, message_text : {"none"}, role : {"user"}]
    \cup
    [fn : {"log_interaction_by_telegram_id"}, telegram_id : CrudIds,
     username : {"none"}, message_text : {"none", "hola"}, role : {"user", "assistant"}]

NoSession == [open |-> FALSE, pending |-> <<>>]

\* the wrapper is called: session = SessionLocal() (line 18), then fn is entered
WS_Call ==
    /\ crpc \in {"idle", "returned"}
    /\ crhist.calls < MaxCrudCalls
    /\ \E c \in CrudCalls : crcall' = c
    /\ orm' = [open |-> TRUE, pending |-> <<>>]
    /\ crout' = [result |-> "unset", raised |-> FALSE]
    /\ crhist' = [before |-> db, writes |-> <<>>, closes |-> 0, committed |-> FALSE,
                  calls |-> crhist.calls + 1]
    /\ crpc' = "fn"
    /\ UNCHANGED db
    /\ UNCHANGED <<streamVars, turnVars, tomtomVars, stream2Vars, sessVars, toolVars, healthVars>>

\* the first half of the wrapped function: the None guard, the select and the
\* user row (lines 45-72 and 92-99); the select may raise
WS_FnUser ==
    /\ crpc = "fn"
    /\ \/ /\ crcall.telegram_id = NoId
          /\ crout' = [crout EXCEPT !.result = "None"]
          /\ crpc' = "commit"
          /\ UNCHANGED <<orm, crhist>>
       \/ /\ crcall.telegram_id /= NoId
          /\ crpc' = "except"
          /\ UNCHANGED <<orm, crout, crhist>>
       \/ /\ crcall.telegram_id /= NoId
          /\ LET id == crcall.telegram_id
                 ws == IF ~HasUser(db, id)
                       THEN <<Insert(UserRow(id, crcall.username))>>
                       ELSE IF crcall.username /= "none"
                            THEN <<Update(id, crcall.username)>>
                            ELSE <<>>
             IN  /\ orm' = [orm EXCEPT !.pending = orm.pending \o ws]
                 /\ crhist' = [crhist EXCEPT !.writes = crhist.writes \o ws]
          /\ IF crcall.fn = "get_or_create_user_by_telegram_id"
             THEN crout' = [crout EXCEPT !.result = "user"] /\ crpc' = "commit"
             ELSE UNCHANGED crout /\ crpc' = "fn_add"
    /\ UNCHANGED <<crcall, db>>
    /\ UNCHANGED <<streamVars, turnVars, tomtomVars, stream2Vars, sessVars, toolVars, healthVars>>

\* log_interaction_by_telegram_id adds the Interaction (lines 101-108)
WS_FnAdd ==
    /\ crpc = "fn_add"
    /\ LET w == Insert(InteractionRow(crcall.telegram_id,
                                      TextOrEmpty(crcall.message_text), crcall.role))
       IN  /\ orm' = [orm EXCEPT !.pending = Append(orm.pending, w)]
           /\ crhist' = [crhist EXCEPT !.writes = Append(crhist.writes, w)]
    /\ crout' = [crout EXCEPT !.result = "None"]
    /\ crpc' = "commit"
    /\ UNCHANGED <<crcall, db>>
    /\ UNCHANGED <<streamVars, turnVars, tomtomVars, stream2Vars, sessVars, toolVars, healthVars>>

\* session.commit() (line 21): stores every pending write, or raises and
\* stores none
WS_Commit ==
    /\ crpc = "commit"
    /\ \/ /\ db' = ApplyWrites(db, orm.pending)
          /\ orm' = [orm EXCEPT !.pending = <<>>]
          /\ crhist' = [crhist EXCEPT !.committed = TRUE]
          /\ crpc' = "close"
          /\ UNCHANGED crout
       \/ /\ crpc' = "except"
          /\ UNCHANGED <<db, orm, crhist, crout>>
    /\ UNCHANGED crcall
    /\ UNCHANGED <<streamVars, turnVars, tomtomVars, stream2Vars, sessVars, toolVars, healthVars>>

\* (mutation of WithSessionCatches: the exception is passed on)
WithSessionReraises(exc) == FALSE

\* `except Exception` (line 23) catches what fn or commit raised
WithSessionCatches(exc) == TRUE

\* lines 23-26: rollback, log, return None
WS_Except ==
    /\ crpc = "except"
    /\ orm' = [orm EXCEPT !.pending = <<>>]
    /\ crout' = IF WithSessionCatches("Exception")
                THEN [result |-> "None", raised |-> FALSE]
                ELSE [result |-> "unset", raised |-> TRUE]
    /\ crpc' = "close"
    /\ UNCHANGED <<crcall, db, crhist>>
    /\ UNCHANGED <<streamVars, turnVars, tomtomVars, stream2Vars, sessVars, toolVars, healthVars>>

\* finally: session.close() (lines 27-28), then the wrapper returns
WS_Close ==
    /\ crpc = "close"
    /\ orm' = [open |-> FALSE, pending |-> <<>>]
    /\ crhist' = [crhist EXCEPT !.closes = @ + 1]
    /\ crpc' = "returned"
    /\ UNCHANGED <<crcall, db, crout>>
    /\ UNCHANGED <<streamVars, turnVars, tomtomVars, stream2Vars, sessVars, toolVars, healthVars>>

-----------------------------------------------------------------------------
(* Telegram tool wrappers: agents/transmi_agent/tools_telegram.py:40-189 *)

\* the worker thread of _run_agent_sync and the thread the runner runs tools on
Threads == {"worker", "runner"}

\* what set_user_context may store: None, an empty value, an id
ContextValues == {"none", "", "42"}

\* set_user_context (lines 45-50): stores into the calling thread's slot
SetContext(c, t, v) == [c EXCEPT ![t] = v]

\* (mutation of GetUserContext: one slot shared by every thread)
GetUserContextShared(c, t) == IF c["worker"] = "unset" THEN "none" ELSE c["worker"]

\* get_user_context (lines 53-55): getattr(_context, "telegram_id", None) of
\* the calling thread
GetUserContext(c, t) == IF c[t] = "unset" THEN "none" ELSE c[t]

Tools == {"capture_simit_screenshot", "tomtom_route_with_traffic",
          "tomtom_find_nearby_services", "tomtom_geocode_address",
          "tomtom_find_nearby_services_by_address"}

\* the crud calls a wrapper makes when it logs, in order
LogCalls(tool) ==
    IF tool = "capture_simit_screenshot" THEN <<"log_plate">>
    ELSE IF tool = "tomtom_route_with_traffic" THEN <<"route_origin", "route_destination">>
    ELSE IF tool = "tomtom_find_nearby_services" THEN <<"nearby_services">>
    ELSE IF tool = "tomtom_geocode_address" THEN <<"geocode">>
    ELSE <<"nearby_by_address">>

\* results of a base tool: a dict with a status, or without one
BaseResults == [status : {"success", "error", "none"}, data : {"d"}]

NoToolResult == [status |-> "unset", data |-> "unset"]

\* `if telegram_id and result.get("status") == "success"` (lines 69, 93, ...)
ShouldLog(id, result) == Truthy(id) /\ result.status = "success"

\* some thread calls set_user_context(v)
SetUserContext(t, v) ==
    /\ context' = SetContext(context, t, v)
    /\ UNCHANGED <<tlpc, tlcall, tlid, tlbase, tlreturned, logAttempts>>
    /\ UNCHANGED <<streamVars, turnVars, tomtomVars, stream2Vars, sessVars, crudVars, healthVars>>

\* a wrapper is called on thread t and awaits its base tool
TL_Call(t, tool) ==
    /\ tlpc \in {"idle", "returned", "raised"}
    /\ tlcall' = [tool |-> tool, thread |-> t]
    /\ tlid' = "none"
    /\ tlbase' = NoToolResult
    /\ tlreturned' = NoToolResult
    /\ logAttempts' = <<>>
    /\ tlpc' = "base"
    /\ UNCHANGED context
    /\ UNCHANGED <<streamVars, turnVars, tomtomVars, stream2Vars, sessVars, crudVars, healthVars>>

\* `result = await _base_...(...)`: the base tool returns a result, or raises
\* and the wrapper raises with it
TL_Base ==
    /\ tlpc = "base"
    /\ \/ \E r \in BaseResults : tlbase' = r /\ tlpc' = "check"
       \/ tlpc' = "raised" /\ UNCHANGED tlbase
    /\ UNCHANGED <<context, tlcall, tlid, tlreturned, logAttempts>>
    /\ UNCHANGED <<streamVars, turnVars, tomtomVars, stream2Vars, sessVars, crudVars, healthVars>>

\* `telegram_id = get_user_context()` and the if of lines 68-69
TL_Check ==
    /\ tlpc = "check"
    /\ LET id == GetUserContext(context, tlcall.thread)
       IN  /\ tlid' = id
           /\ tlpc' = IF ShouldLog(id, tlbase) THEN "log" ELSE "return"
    /\ UNCHANGED <<context, tlcall, tlbase, tlreturned, logAttempts>>
    /\ UNCHANGED <<streamVars, turnVars, tomtomVars, stream2Vars, sessVars, crudVars, healthVars>>

\* one `await asyncio.to_thread(log_..., telegram_id, ...)` inside the try: it
\* completes, or raises and the except clause logs and skips the rest
TL_Log ==
    /\ tlpc = "log"
    /\ LET calls == LogCalls(tlcall.tool)
           k     == Len(logAttempts) + 1
       IN  \/ /\ logAttempts' = Append(logAttempts,
                     [log |-> calls[k], telegram_id |-> tlid, failed |-> FALSE])
              /\ tlpc' = IF k < Len(calls) THEN "log" ELSE "return"
           \/ /\ logAttempts' = Append(logAttempts,
                     [log |-> calls[k], telegram_id |-> tlid, failed |-> TRUE])
              /\ tlpc' = "return"
    /\ UNCHANGED <<context, tlcall, tlid, tlbase, tlreturned>>
    /\ UNCHANGED <<streamVars, turnVars, tomtomVars, stream2Vars, sessVars, crudVars, healthVars>>

\* `return result`
TL_Return ==
    /\ tlpc = "return"
    /\ tlreturned' = tlbase
    /\ tlpc' = "returned"
    /\ UNCHANGED <<context, tlcall, tlid, tlbase, logAttempts>>
    /\ UNCHANGED <<streamVars, turnVars, tomtomVars, stream2Vars, sessVars, crudVars, healthVars>>

-----------------------------------------------------------------------------
(* main and the health server: app/main.py:31-76, app/health.py:43-76 *)

\* a HealthServer nobody has built
NoHealthServer ==
    [shutdown_event |-> FALSE, serving |-> FALSE, socket_open |-> FALSE,
     thread_alive |-> FALSE]

\* start_health_server (health.py:71-76): the socket is bound by __init__ and
\* the thread runs serve_forever
StartedHealthServer ==
    [shutdown_event |-> FALSE, serving |-> TRUE, socket_open |-> TRUE,
     thread_alive |-> TRUE]

\* how application.run_polling / run_webhook can end
RunOutcomes == {"return", "KeyboardInterrupt", "ExternalServiceError", "Exception"}

\* the except clauses of main.py:66-73
MainExit(outcome) ==
    IF outcome \in {"return", "KeyboardInterrupt"} THEN "returned"
    ELSE IF outcome = "ExternalServiceError" THEN "ExternalServiceError"
    ELSE "ConfigurationError"

\* main.py:37-41: the application is built, the mode is chosen
M_Boot ==
    /\ mpc = "boot"
    /\ mpc' = IF webhook_mode THEN "run" ELSE "start_health"
    /\ UNCHANGED <<webhook_mode, health_server, hs, stoppc, stopcaller, hcalls, mexit>>
    /\ UNCHANGED <<streamVars, turnVars, tomtomVars, stream2Vars, sessVars, crudVars, toolVars>>

\* main.py:54-60: start_health_server succeeds, or raises OSError, which is
\* turned into ConfigurationError inside the outer try
M_StartHealth ==
    /\ mpc = "start_health"
    /\ \/ /\ health_server' = "started"
          /\ hs' = StartedHealthServer
          /\ mpc' = "run"
          /\ UNCHANGED mexit
       \/ /\ mpc' = "finally"
          /\ mexit' = [outcome |-> "OSError", exit |-> MainExit("Exception")]
          /\ UNCHANGED <<health_server, hs>>
    /\ UNCHANGED <<webhook_mode, stoppc, stopcaller, hcalls>>
    /\ UNCHANGED <<streamVars, turnVars, tomtomVars, stream2Vars, sessVars, crudVars, toolVars>>

\* main.py:44-52 / 62-65 and the except clauses 66-73: the run ends
M_Run ==
    /\ mpc = "run"
    /\ stoppc = "none"
    /\ \E o \in RunOutcomes : mexit' = [outcome |-> o, exit |-> MainExit(o)]
    /\ mpc' = "finally"
    /\ UNCHANGED <<webhook_mode, health_server, hs, stoppc, stopcaller, hcalls>>
    /\ UNCHANGED <<streamVars, turnVars, tomtomVars, stream2Vars, sessVars, crudVars, toolVars>>

\* main.py:74-76: finally, stop the health server if there is one
M_Finally ==
    /\ mpc = "finally"
    /\ IF health_server /= "None"
       THEN /\ mpc' = "stopping"
            /\ stoppc' = "enter"
            /\ stopcaller' = "main"
            /\ hcalls' = [hcalls EXCEPT !.stops = @ + 1]
       ELSE /\ mpc' = "exited"
            /\ UNCHANGED <<stoppc, stopcaller, hcalls>>
    /\ UNCHANGED <<webhook_mode, health_server, hs, mexit>>
    /\ UNCHANGED <<streamVars, turnVars, tomtomVars, stream2Vars, sessVars, crudVars, toolVars>>

\* stop() is called on the started server by someone other than main's
\* finally clause, while the bot runs or after main has ended
HS_StopCall ==
    /\ health_server = "started"
    /\ mpc \in {"run", "exited"}
    /\ stoppc = "none"
    /\ hcalls.stops < MaxStops
    /\ stoppc' = "enter"
    /\ stopcaller' = "other"
    /\ hcalls' = [hcalls EXCEPT !.stops = @ + 1]
    /\ UNCHANGED <<mpc, webhook_mode, health_server, hs, mexit>>
    /\ UNCHANGED <<streamVars, turnVars, tomtomVars, stream2Vars, sessVars, crudVars, toolVars>>

\* the position stop() returns to
StopReturn ==
    /\ stoppc' = "none"
    /\ stopcaller' = "none"
    /\ mpc' = IF stopcaller = "main" THEN "exited" ELSE mpc
    /\ hcalls' = [hcalls EXCEPT !.returned = @ + 1]

\* (mutation of AlreadyStopped: the event is not consulted)
AlreadyStoppedIgnored(event) == FALSE

\* `if self._shutdown_event.is_set(): return` (health.py:59-60)
AlreadyStopped(event) == event

\* health.py:59-63: return at once, or set the event and go on
HS_StopEnter ==
    /\ stoppc = "enter"
    /\ IF AlreadyStopped(hs.shutdown_event)
       THEN /\ StopReturn
            /\ UNCHANGED hs
       ELSE /\ hs' = [hs EXCEPT !.shutdown_event = TRUE]
            /\ stoppc' = "shutdown"
            /\ UNCHANGED <<mpc, stopcaller, hcalls>>
    /\ UNCHANGED <<webhook_mode, health_server, mexit>>
    /\ UNCHANGED <<streamVars, turnVars, tomtomVars, stream2Vars, sessVars, crudVars, toolVars>>

\* health.py:64-65: self._server.shutdown(); an exception is suppressed and
\* leaves serve_forever running
HS_Shutdown ==
    /\ stoppc = "shutdown"
    /\ \E ok \in BOOLEAN :
         /\ hs' = IF ok THEN [hs EXCEPT !.serving = FALSE] ELSE hs
         /\ hcalls' = [hcalls EXCEPT !.shutdowns = @ + 1,
                                     !.failed = @ \/ ~ok]
    /\ stoppc' = "server_close"
    /\ UNCHANGED <<mpc, webhook_mode, health_server, stopcaller, mexit>>
    /\ UNCHANGED <<streamVars, turnVars, tomtomVars, stream2Vars, sessVars, crudVars, toolVars>>

\* health.py:66-67: self._server.server_close(); an exception is suppressed
HS_ServerClose ==
    /\ stoppc = "server_close"
    /\ \E ok \in BOOLEAN :
         /\ hs' = IF ok THEN [hs EXCEPT !.socket_open = FALSE] ELSE hs
         /\ hcalls' = [hcalls EXCEPT !.closes = @ + 1,
                                     !.failed = @ \/ ~ok]
    /\ stoppc' = "join"
    /\ UNCHANGED <<mpc, webhook_mode, health_server, stopcaller, mexit>>
    /\ UNCHANGED <<streamVars, turnVars, tomtomVars, stream2Vars, sessVars, crudVars, toolVars>>

\* health.py:68: self._thread.join(timeout=5): the thread has ended once
\* serve_forever returned, otherwise the join times out
HS_Join ==
    /\ stoppc = "join"
    /\ hs' = [hs EXCEPT !.thread_alive = hs.serving]
    /\ stoppc' = "none"
    /\ stopcaller' = "none"
    /\ mpc' = IF stopcaller = "main" THEN "exited" ELSE mpc
    /\ hcalls' = [hcalls EXCEPT !.joins = @ + 1, !.returned = @ + 1]
    /\ UNCHANGED <<webhook_mode, health_server, mexit>>
    /\ UNCHANGED <<streamVars, turnVars, tomtomVars, stream2Vars, sessVars, crudVars, toolVars>>

-----------------------------------------------------------------------------
(* Initial states *)

\* no invoke_agent call shares the session service
SessIdle ==
    /\ session_service = <<>>
    /\ ipc = [c \in Callers |-> "absent"]
    /\ ensureLog = <<>>

\* no crud operation was called
CrudIdle ==
    /\ crpc = "idle"
    /\ crcall = [fn |-> "none"]
    /\ orm = NoSession
    /\ db = <<>>
    /\ crout = [result |-> "unset", raised |-> FALSE]
    /\ crhist = [before |-> <<>>, writes |-> <<>>, closes |-> 0, committed |-> FALSE,
                 calls |-> 0]

\* no tool wrapper was called and no thread has a context
ToolIdle ==
    /\ context = [t \in Threads |-> "unset"]
    /\ tlpc = "idle"
    /\ tlcall = [tool |-> "none", thread |-> "none"]
    /\ tlid = "none"
    /\ tlbase = NoToolResult
    /\ tlreturned = NoToolResult
    /\ logAttempts = <<>>

NoStopCalls ==
    [stops |-> 0, returned |-> 0, shutdowns |-> 0, closes |-> 0, joins |-> 0,
     failed |-> FALSE]

\* main has not run
HealthIdle ==
    /\ mpc = "none"
    /\ webhook_mode = FALSE
    /\ health_server = "None"
    /\ hs = NoHealthServer
    /\ stoppc = "none"
    /\ stopcaller = "none"
    /\ hcalls = NoStopCalls
    /\ mexit = [outcome |-> "none", exit |-> "none"]

AuxIdle ==
    /\ SessIdle
    /\ CrudIdle
    /\ ToolIdle
    /\ HealthIdle

TurnIdle ==
    /\ htpc = "entry"
    /\ stop_event = FALSE
    /\ animpc = "none"
    /\ frame_index = 1
    /\ last_text = NoMsg
    /\ animEdits = 0
    /\ typingpc = "none"
    /\ typingCalls = 0
    /\ status_text = NoMsg
    /\ chat = <<>>
    /\ dbLog = <<>>

\* no service call is in progress
TomTomIdle ==
    /\ tfn = "none"
    /\ tpc = "none"
    /\ origin_text = <<>>
    /\ destination_text = <<>>
    /\ tomtom_api_key = FALSE
    /\ origin_geo = NoResult
    /\ dest_geo = NoResult
    /\ requests = <<>>
    /\ tresult = NoResult

\* no second stream
Stream2Idle ==
    /\ w2pc = "none"
    /\ fed2 = <<>>
    /\ previous_message2 = NoneMsg
    /\ emitted2 = <<>>

\* (mutation of WorkerAtCreation: invoke_agent starts its worker when called)
WorkerStartedEagerly == "start"

\* invoke_agent is an async generator function: calling it runs none of its
\* body (lines 210-232), so no worker task exists until the first read
WorkerAtCreation == "none"

\* a stream nobody has read yet
StreamAt(g) ==
    /\ fed = <<>>
    /\ wpc = WorkerAtCreation
    /\ werr = FALSE
    /\ previous_message = NoneMsg
    /\ final_answer = NoneMsg
    /\ wevent = <<>>
    /\ wput = <<>>
    /\ userCtx = "unset"
    /\ message_queue = <<>>
    /\ gen = g
    /\ call = "none"
    /\ lastResult = "none"
    /\ received = <<>>
    /\ endKind = "none"
    /\ emitted = <<>>
    /\ sentinels = 0
    /\ joins = 0
    /\ closeCalls = 0
    /\ closeReturns = 0
    /\ closedMidFlight = FALSE
    /\ srcEnd = "none"

\* a stream just created by invoke_agent(query, phone_number, use_telegram_tools),
\* not read yet; no turn is running
Init ==
    /\ StreamAt("created")
    /\ phone_number \in PhoneSet
    /\ use_telegram_tools \in BOOLEAN
    /\ sessionExists \in BOOLEAN
    /\ TurnIdle
    /\ TomTomIdle
    /\ Stream2Idle
    /\ AuxIdle
    /\ update = [message |-> FALSE, telegram_id |-> 0]
    /\ turnSource = Source(<<>>, FALSE)

\* handle_text is entered with an update; no stream exists yet
InitTurn ==
    /\ StreamAt("absent")
    /\ phone_number = "none"
    /\ use_telegram_tools = TRUE
    /\ sessionExists \in BOOLEAN
    /\ TurnIdle
    /\ TomTomIdle
    /\ Stream2Idle
    /\ AuxIdle
    /\ update \in UpdateSet
    /\ turnSource \in TurnSources

Next ==
    \/ W_Start
    \/ W_Next
    \/ W_AfterEmit
    \/ W_Finally
    \/ W_Return
    \/ LoopPut
    \/ Anext
    \/ G_Get
    \/ G_Join
    \/ Aclose

Spec == Init /\ [][Next]_vars

NextTurn ==
    \/ HT_Entry
    \/ HT_LogUser
    \/ HT_Placeholder
    \/ HT_StartPresenterAndOpen
    \/ Anim_Wake
    \/ Anim_Cycle
    \/ Typing_Cycle
    \/ Typing_Wake

SpecTurn == InitTurn /\ [][NextTurn]_vars

\* the first read of a stream has begun (lines 210-227: the worker task is
\* created, the generator waits in queue.get()); a second invoke_agent call
\* may start its worker at any time
InitStreams ==
    /\ fed = <<>>
    /\ wpc = "start"
    /\ werr = FALSE
    /\ previous_message = NoneMsg
    /\ final_answer = NoneMsg
    /\ wevent = <<>>
    /\ wput = <<>>
    /\ userCtx = "unset"
    /\ phone_number = "none"
    /\ use_telegram_tools = FALSE
    /\ sessionExists = TRUE
    /\ message_queue = <<>>
    /\ gen = "waiting_get"
    /\ call = "anext"
    /\ lastResult = "none"
    /\ received = <<>>
    /\ endKind = "none"
    /\ emitted = <<>>
    /\ sentinels = 0
    /\ joins = 0
    /\ closeCalls = 0
    /\ closeReturns = 0
    /\ closedMidFlight = FALSE
    /\ srcEnd = "none"
    /\ TurnIdle
    /\ TomTomIdle
    /\ Stream2Idle
    /\ AuxIdle
    /\ update = [message |-> FALSE, telegram_id |-> 0]
    /\ turnSource = Source(<<>>, FALSE)

NextStreams ==
    \/ W_Start
    \/ W_Next
    \/ W_AfterEmit
    \/ W_Finally
    \/ W_Return
    \/ LoopPut
    \/ W2_Start
    \/ W2_Next
    \/ W2_End

SpecStreams == InitStreams /\ [][NextStreams]_vars

\* a service function is called with its arguments; no turn and no stream
InitTomTom ==
    /\ StreamAt("absent")
    /\ phone_number = "none"
    /\ use_telegram_tools = TRUE
    /\ sessionExists = FALSE
    /\ TurnIdle
    /\ update = [message |-> FALSE, telegram_id |-> 0]
    /\ turnSource = Source(<<>>, FALSE)
    /\ tfn \in {"_geocode_address", "get_route_traffic_summary"}
    /\ tpc = "entry"
    /\ origin_text \in AddressSet
    /\ destination_text \in AddressSet
    /\ tomtom_api_key \in BOOLEAN
    /\ origin_geo = NoResult
    /\ dest_geo = NoResult
    /\ requests = <<>>
    /\ tresult = NoResult
    /\ Stream2Idle
    /\ AuxIdle

NextTomTom ==
    \/ GA_Call
    \/ RT_Validate
    \/ RT_GeocodeOrigin
    \/ RT_GeocodeDest
    \/ RT_Route

SpecTomTom == InitTomTom /\ [][NextTomTom]_vars

\* MaxCalls streams were created by invoke_agent and none was read yet; the
\* process has no session
InitSession ==
    /\ StreamAt("absent")
    /\ phone_number = "none"
    /\ use_telegram_tools = FALSE
    /\ sessionExists = FALSE
    /\ TurnIdle
    /\ TomTomIdle
    /\ Stream2Idle
    /\ update = [message |-> FALSE, telegram_id |-> 0]
    /\ turnSource = Source(<<>>, FALSE)
    /\ session_service = <<>>
    /\ ipc = [c \in Callers |-> "created"]
    /\ ensureLog = <<>>
    /\ CrudIdle
    /\ ToolIdle
    /\ HealthIdle

NextSession ==
    \/ \E c \in Callers : IA_Ensure(c)
    \/ \E c \in Callers : IA_SessionEvent(c)
    \/ \E c \in Callers : IA_End(c)
    \/ \E c \in Callers : IA_CloseUnread(c)

SpecSession == InitSession /\ [][NextSession]_vars

\* crud operations are called one after the other on a database that is
\* empty or already holds the user
InitCrud ==
    /\ StreamAt("absent")
    /\ phone_number = "none"
    /\ use_telegram_tools = FALSE
    /\ sessionExists = FALSE
    /\ TurnIdle
    /\ TomTomIdle
    /\ Stream2Idle
    /\ update = [message |-> FALSE, telegram_id |-> 0]
    /\ turnSource = Source(<<>>, FALSE)
    /\ SessIdle
    /\ crpc = "idle"
    /\ crcall = [fn |-> "none"]
    /\ orm = NoSession
    /\ db \in {<<>>, <<UserRow(<<42>>, "none")>>}
    /\ crout = [result |-> "unset", raised |-> FALSE]
    /\ crhist = [before |-> db, writes |-> <<>>, closes |-> 0, committed |-> FALSE,
                 calls |-> 0]
    /\ ToolIdle
    /\ HealthIdle

NextCrud ==
    \/ WS_Call
    \/ WS_FnUser
    \/ WS_FnAdd
    \/ WS_Commit
    \/ WS_Except
    \/ WS_Close

SpecCrud == InitCrud /\ [][NextCrud]_vars

\* no thread has a context yet; threads set contexts and call wrappers
InitTools ==
    /\ StreamAt("absent")
    /\ phone_number = "none"
    /\ use_telegram_tools = TRUE
    /\ sessionExists = FALSE
    /\ TurnIdle
    /\ TomTomIdle
    /\ Stream2Idle
    /\ update = [message |-> FALSE, telegram_id |-> 0]
    /\ turnSource = Source(<<>>, FALSE)
    /\ AuxIdle

NextTools ==
    \/ \E t \in Threads, v \in ContextValues : SetUserContext(t, v)
    \/ \E t \in Threads, tool \in Tools : TL_Call(t, tool)
    \/ TL_Base
    \/ TL_Check
    \/ TL_Log
    \/ TL_Return

SpecTools == InitTools /\ [][NextTools]_vars

\* main is entered, in webhook or in polling mode
InitMain ==
    /\ StreamAt("absent")
    /\ phone_number = "none"
    /\ use_telegram_tools = TRUE
    /\ sessionExists = FALSE
    /\ TurnIdle
    /\ TomTomIdle
    /\ Stream2Idle
    /\ update = [message |-> FALSE, telegram_id |-> 0]
    /\ turnSource = Source(<<>>, FALSE)
    /\ SessIdle
    /\ CrudIdle
    /\ ToolIdle
    /\ mpc = "boot"
    /\ webhook_mode \in BOOLEAN
    /\ health_server = "None"
    /\ hs = NoHealthServer
    /\ stoppc = "none"
    /\ stopcaller = "none"
    /\ hcalls = NoStopCalls
    /\ mexit = [outcome |-> "none", exit |-> "none"]

NextMain ==
    \/ M_Boot
    \/ M_StartHealth
    \/ M_Run
    \/ M_Finally
    \/ HS_StopCall
    \/ HS_StopEnter
    \/ HS_Shutdown
    \/ HS_ServerClose
    \/ HS_Join

SpecMain == InitMain /\ [][NextMain]_vars


-----------------------------------------------------------------------------
(* Observations used by the properties *)

NoConsecutiveEqual(s) == \A i \in 1..(Len(s) - 1) : s[i] /= s[i + 1]

RECURSIVE ChunkTexts(_)
\* the texts of the chunks among queue items, in queue order
ChunkTexts(items) ==
    IF items = <<>> THEN <<>>
    ELSE IF Head(items).kind = "chunk"
         THEN <<Head(items).text>> \o ChunkTexts(Tail(items))
         ELSE ChunkTexts(Tail(items))

HasText(e) == EventSegments(e) /= <<>>

\* the worker thread was started for this stream
WorkerStarted == wpc /= "none"

\* handle_text is over, by return or by an exception leaving it
TurnOver == htpc \in {"returned", "raised"}

PlaceholderPosted == status_text /= NoMsg

PresenterStopped == stop_event /\ animpc = "done" /\ typingpc = "done"

IsHandlerWrite(c) == c.by = "handler" /\ c.op \in {"send", "edit"}

\* what handle_text itself wrote to the chat after the placeholder
HandlerWritesAfterPlaceholder ==
    LET w == SelectSeq(chat, IsHandlerWrite) IN IF w = <<>> THEN <<>> ELSE Tail(w)

IsFailureShown(c) == IsHandlerWrite(c) /\ c.text = FailureText /\ c.outcome = "ok"

FailureMessages == Len(SelectSeq(chat, IsFailureShown))

IsChunkDelivered(c) == IsHandlerWrite(c) /\ c.text.kind = "chunk" /\ c.outcome = "ok"

RECURSIVE TextsOf(_)
TextsOf(calls) ==
    IF calls = <<>> THEN <<>> ELSE <<Head(calls).text.text>> \o TextsOf(Tail(calls))

DeliveredChunks == TextsOf(SelectSeq(chat, IsChunkDelivered))

-----------------------------------------------------------------------------
(* Properties of the streaming bridge, checked under Spec *)

\* C1: whatever events the worker is fed, the chunks it hands to _emit, and so
\* the chunks the consumer is given, never hold the same text twice in a row.
C1_NoConsecutiveEqualChunks ==
    /\ NoConsecutiveEqual(emitted)
    /\ NoConsecutiveEqual(ChunkTexts(message_queue))
    /\ NoConsecutiveEqual(received)

\* the worker was fed the same text twice in a row and the consumer read the
\* stream to its clean end
C1_Witness ==
    /\ endKind = "clean"
    /\ received = emitted
    /\ \E i \in 1..(Len(fed) - 1) :
         /\ HasText(fed[i])
         /\ HasText(fed[i + 1])
         /\ MessageText(fed[i]) = MessageText(fed[i + 1])

\* C2: in every interleaving of worker and consumer, what the consumer has
\* read, followed by the chunks still in the queue and the chunk whose put the
\* loop has not run yet, is exactly what the worker emitted, in that order; a
\* consumer that read to the end of the stream has read every emitted chunk.
C2_ConsumerSeesEmittedInOrder ==
    /\ received \o ChunkTexts(message_queue \o wput) = emitted
    /\ endKind /= "none" => received = emitted

\* the worker ran ahead: one chunk read, two more waiting in the queue
C2_Witness ==
    /\ Len(received) >= 1
    /\ Len(ChunkTexts(message_queue)) >= 2

\* C3 (as claimed): on every way the worker ends it has handed the sentinel to
\* the loop, so a consumer waiting in queue.get() is never left with an empty
\* queue and a finished worker.
C3_SentinelOnEveryWorkerEnd ==
    /\ wpc = "done" => sentinels = 1
    /\ (wpc = "done" /\ gen = "waiting_get") => message_queue /= <<>>

\* C4 (as claimed): a worker that raised leaves a reading consumer something to
\* read (a queued item, or the join that raises); a stream seen to end by an
\* error or cleanly was read in full first; a clean end comes with chunks.
C4_ErrorEndingsReachTheConsumer ==
    /\ (wpc = "done" /\ werr /\ call = "anext")
          => (message_queue /= <<>> \/ gen = "joining")
    /\ endKind = "error" => (werr /\ received = emitted)
    /\ endKind = "clean" => (~werr /\ received = emitted /\ Len(received) >= 1)

\* C5: once aclose() has finished on a stream whose worker was started, the
\* worker thread has ended and no put of it is pending.
C5_CloseWaitsForWorker ==
    (closeReturns >= 1 /\ WorkerStarted) => (wpc = "done" /\ wput = <<>>)

\* aclose() was called while the worker was still running, and has finished
C5_Witness ==
    /\ closedMidFlight
    /\ closeReturns >= 1
    /\ Len(received) >= 1

\* C6: after one aclose() has finished the worker is not running, and a further
\* aclose() finishes at once, raises nothing and changes nothing of the
\* stream: no join, no put, no change of queue, generator or worker.
C6_CloseIsIdempotent ==
    /\ [](closeReturns >= 1 => (wpc \in {"none", "done"} /\ gen = "closed"))
    /\ [][(closeReturns >= 1 /\ closeCalls' = closeCalls + 1)
            => (/\ closeReturns' = closeReturns + 1
                /\ lastResult' = "closed"
                /\ UNCHANGED <<fed, wpc, werr, previous_message, final_answer,
                               wevent, wput, userCtx, sessionExists, message_queue,
                               gen, call, received, endKind, emitted, sentinels,
                               joins>>)]_vars

\* the first aclose() joined a running worker, the second has finished too
C6_Witness ==
    /\ closedMidFlight
    /\ closeCalls = 2
    /\ closeReturns = 2
    /\ joins = 1

-----------------------------------------------------------------------------
(* Properties of the chat turn, checked under SpecTurn *)

\* C7 (as claimed): a turn whose Event Source yields no event with text ends
\* with exactly one failure message shown, by an edit of the placeholder, and
\* with the Presenter stopped.
C7_EmptySourceEndsErrored ==
    (/\ TurnOver
     /\ PlaceholderPosted
     /\ ~turnSource.raises
     /\ SourceChunks(turnSource) = <<>>)
        => (/\ FailureMessages = 1
            /\ HandlerWritesAfterPlaceholder =
                 <<ChatCall("edit", "handler", FailureText, "ok")>>
            /\ PresenterStopped)

\* C8 (as claimed): a turn whose Event Source raises after chunks were produced
\* ends having delivered those chunks in order, then one failure message, and
\* having closed the stream once.
C8_MidStreamFailureDelivered ==
    (/\ TurnOver
     /\ PlaceholderPosted
     /\ turnSource.raises
     /\ SourceChunks(turnSource) /= <<>>)
        => (/\ DeliveredChunks = SourceChunks(turnSource)
            /\ FailureMessages = 1
            /\ closeCalls = 1)

\* C9 (as claimed): the turn fed ["a", "a", "b" (final)] ends having edited the
\* placeholder to "a" once and then sent "b" once as a new message.
C9_FirstChunkEditsRestAreSent ==
    (TurnOver /\ PlaceholderPosted /\ turnSource = ScenarioSource)
        => HandlerWritesAfterPlaceholder =
             << ChatCall("edit", "handler", ChunkText(<<"a">>), "ok"),
                ChatCall("send", "handler", ChunkText(<<"b">>), "ok") >>

\* the edit calls the animation loop issued, in order
IsAnimationEdit(c) == c.by = "animation" /\ c.op = "edit"

AnimationEdits == SelectSeq(chat, IsAnimationEdit)

\* C11 (as claimed): no two consecutive edit calls of the animation loop carry
\* the same text, whether the calls succeed or fail.
C11_NoTwoConsecutiveEqualEditCalls ==
    \A i \in 1..(Len(AnimationEdits) - 1) :
        AnimationEdits[i].text /= AnimationEdits[i + 1].text

\* C11 (amended): the animation loop never issues an edit call carrying the
\* text of the edit that last succeeded (the placeholder text before any
\* succeeded): an edit call that follows a successful one carries another
\* text, and one that follows a failed call carries that call's text again.
C11_EditRepeatsOnlyAfterFailure ==
    /\ AnimationEdits /= <<>> => AnimationEdits[1].text /= Procesando(0)
    /\ \A i \in 1..(Len(AnimationEdits) - 1) :
         (AnimationEdits[i].text = AnimationEdits[i + 1].text)
            <=> (AnimationEdits[i].outcome /= "ok")

\* the animation loop issued an edit after a successful edit
C11_Witness ==
    /\ Len(AnimationEdits) >= 2
    /\ AnimationEdits[1].outcome = "ok"
    /\ AnimationEdits[2].text = Procesando(0)

\* the two Presenter tasks of lines 179-180 have been created
PresenterTasksCreated == animpc /= "none" /\ typingpc /= "none"

\* C12: whenever handle_text has finished after creating the Presenter tasks,
\* the stop flag is set and both the animation task and the typing task have
\* finished.
C12_LoopsNeverOutliveTheTurn ==
    (TurnOver /\ PresenterTasksCreated) => PresenterStopped

\* the kinds of text the turn may show: a placeholder or animation frame, a
\* chunk of the stream, the fixed failure text
UserVisibleKinds == {"frame", "chunk", "failure"}

IsChatWrite(c) == c.op \in {"send", "edit"}

IsFailedCall(c) == c.outcome /= "ok"

\* C16: every text written to the chat during a turn is a placeholder or
\* animation frame, a chunk of the stream or the fixed failure text, never the
\* text of a raised exception; the Presenter's loops never send a message, and
\* a failed call is followed by no message other than those texts.
C16_OnlyFramesChunksAndFailureText ==
    \A i \in 1..Len(chat) :
        /\ IsChatWrite(chat[i]) => chat[i].text.kind \in UserVisibleKinds
        /\ chat[i].by /= "handler" => chat[i].op /= "send"
        /\ (chat[i].op = "send" /\ chat[i].text.kind = "frame") => i = 1

\* handle_text ended with an exception after the placeholder was posted, and an
\* animation edit and a typing call had failed
C16_Witness ==
    /\ htpc = "raised"
    /\ PlaceholderPosted
    /\ \E i \in 1..Len(chat) : IsAnimationEdit(chat[i]) /\ IsFailedCall(chat[i])
    /\ \E i \in 1..Len(chat) : chat[i].op = "typing" /\ IsFailedCall(chat[i])

\* handle_text is at one of its calls to the logging sink
AtRecordCall == htpc \in {"entry", "log_user"}

\* handle_text passed the guards of lines 93-103
PassesGuards == update.message /\ update.telegram_id /= 0

\* C18: a call to the logging sink, whether it writes its record or fails,
\* takes handle_text to the same next statement and changes nothing of the
\* chat, the status message, the Presenter or the stream.
C18_RecordFailureChangesNothing ==
    [][AtRecordCall =>
         /\ htpc' = IF htpc = "log_user" THEN "placeholder"
                    ELSE IF PassesGuards THEN "log_user" ELSE "returned"
         /\ UNCHANGED <<chat, status_text, stop_event, animpc, frame_index,
                        last_text, typingpc, streamVars>>]_vars

\* both record calls failed and the turn went on to post the placeholder and
\* start the Presenter
C18_Witness ==
    /\ dbLog = <<>>
    /\ PlaceholderPosted
    /\ PresenterTasksCreated

IsTypingCall(c) == c.op = "typing"

\* C20: after a typing call the transport rejected, the heartbeat loop has
\* returned and no further typing call is issued; a step of the heartbeat loop
\* changes nothing of handle_text, the stop flag, the animation loop, the
\* status message or the stream.
C20_TypingFailureEndsOnlyTheHeartbeat ==
    /\ [](\A i \in 1..Len(chat) :
            (IsTypingCall(chat[i]) /\ IsFailedCall(chat[i])) =>
                /\ typingpc = "done"
                /\ \A j \in (i + 1)..Len(chat) : ~IsTypingCall(chat[j]))
    /\ [][(typingpc /= "none" /\ typingpc' /= typingpc) =>
            UNCHANGED <<htpc, stop_event, animpc, frame_index, last_text,
                        status_text, streamVars>>]_vars

\* a typing call failed and the animation loop edited the placeholder after it
C20_Witness ==
    \E i \in 1..Len(chat) :
        /\ IsTypingCall(chat[i]) /\ IsFailedCall(chat[i])
        /\ \E j \in (i + 1)..Len(chat) :
             IsAnimationEdit(chat[j]) /\ chat[j].outcome = "ok"

\* the Event Source ran out of events (the for loop of line 163 ended)
SourceExhausted == srcEnd = "exhausted"

\* no event the source yielded carried the final marker
NoFinalMarker == \A i \in 1..Len(fed) : ~fed[i].final

\* some event the source yielded carried both text and the final marker
SomeFinalEventWithText == \E i \in 1..Len(fed) : fed[i].final /\ HasText(fed[i])

\* a read of the consumer met the end of the stream
StreamEndSeen == endKind /= "none"

\* C19 (as claimed): if the Event Source is exhausted without any event
\* carrying the final marker, the consumer receives the chunks produced and
\* then a normal end of stream, not an error.
C19_NoFinalMarkerStillEndsCleanly ==
    (SourceExhausted /\ NoFinalMarker /\ StreamEndSeen) =>
        /\ endKind = "clean"
        /\ received = emitted

\* C19 (amended): if the Event Source is exhausted and no event with text
\* carried the final marker, the consumer receives the chunks produced and
\* then the read that meets the end of the stream raises the worker's error;
\* a stream ends normally only when the source was exhausted after an event
\* with text carried the final marker, and then at least one chunk was
\* received.
C19_NoFinalResponseEndsInError ==
    /\ (SourceExhausted /\ ~SomeFinalEventWithText /\ StreamEndSeen) =>
           /\ endKind = "error"
           /\ received = emitted
    /\ endKind = "clean" =>
           /\ SourceExhausted
           /\ SomeFinalEventWithText
           /\ received = emitted
           /\ Len(received) >= 1

\* the source ran out after yielding text but no final marker, and the read
\* that met the end of the stream raised after the chunks were received
C19_Witness ==
    /\ SourceExhausted
    /\ NoFinalMarker
    /\ Len(received) >= 1
    /\ endKind = "error"

\* an edit error outside the "message is not modified" / "bad request" class
IsOtherEditError(c) == IsAnimationEdit(c) /\ c.outcome = "error"

\* C21 (as claimed): a transport edit error that is not of the "message
\* unmodified" class makes the animation loop exit: it issues no further edit.
C21_OtherEditErrorEndsTheAnimation ==
    \A i \in 1..Len(AnimationEdits) :
        IsOtherEditError(AnimationEdits[i]) => i = Len(AnimationEdits)

\* C21 (amended): every transport edit error, of the "message unmodified"
\* class or any other, is swallowed and the same edit is retried on the next
\* cycle; the animation loop ends only once the stop flag is set.
C21_EveryEditErrorIsRetried ==
    /\ animpc = "done" => stop_event
    /\ \A i \in 1..Len(AnimationEdits) :
         IsFailedCall(AnimationEdits[i]) =>
            IF i < Len(AnimationEdits)
            THEN AnimationEdits[i + 1].text = AnimationEdits[i].text
            ELSE /\ animpc \in {"sleep", "loop"}
                 /\ Procesando(frame_index) = AnimationEdits[i].text

\* an edit failed with an error outside the "unmodified" class and the loop
\* issued the edit again
C21_Witness ==
    /\ Len(AnimationEdits) >= 2
    /\ IsOtherEditError(AnimationEdits[1])

\* the worker has handed the sentinel to the loop: it is past line 194's put
SentinelHandedOver == sentinels >= 1

\* C23: for every stream whose worker was started, the sentinel is enqueued
\* exactly once (once the worker has ended, one sentinel was handed over, and
\* never more than one), and nothing is enqueued after it: the worker emits no
\* chunk once the sentinel was handed over, and a sentinel in the queue is the
\* queue's last item.
C23_SentinelExactlyOnceAndLast ==
    /\ sentinels <= 1
    /\ (WorkerStarted /\ wpc = "done") => sentinels = 1
    /\ SentinelHandedOver =>
          /\ wpc \in {"sentinel_wait", "done"}
          /\ wput \in {<<>>, <<Sentinel>>}
    /\ \A i \in 1..Len(message_queue) :
          message_queue[i] = Sentinel => (i = Len(message_queue) /\ wput = <<>>)

\* the worker thread is inside future.result() of an enqueue
WorkerInEnqueue == wpc \in {"emit_wait", "sentinel_wait"}

\* the worker thread can take its next step now
WorkerCanContinue == ENABLED (W_AfterEmit \/ W_Return)

\* C25 (as claimed): a worker inside an enqueue can always complete it and
\* continue, whatever the event-loop thread has or has not done.
C25_EnqueueNeverWaitsForTheLoop ==
    WorkerInEnqueue => WorkerCanContinue

\* C25 (amended): an enqueue by the worker hands the put to the event loop and
\* blocks until the loop has run it: while the put is pending the worker is
\* inside the enqueue and cannot continue, the loop can always run the put (the
\* queue is unbounded), and the worker leaves the enqueue only with the put
\* done.
C25_EnqueueWaitsForTheLoopOnly ==
    /\ [](wput /= <<>> =>
            /\ WorkerInEnqueue
            /\ ~WorkerCanContinue
            /\ ENABLED LoopPut)
    /\ []((WorkerInEnqueue /\ wput = <<>>) => WorkerCanContinue)
    /\ [][(WorkerInEnqueue /\ wpc' /= wpc) => wput = <<>>]_vars

\* the worker emitted a chunk, the loop ran the put while the consumer had not
\* read it, and the worker went on to its next event
C25_Witness ==
    /\ wpc = "loop"
    /\ previous_message /= NoneMsg
    /\ Len(ChunkTexts(message_queue)) >= 1
    /\ received = <<>>

\* the service call has ended, by returning or by raising
CallOver == tpc \in {"returned", "raised"}

\* C26: a service call never raises and returns status "success" or "error";
\* a blank address, origin or destination yields a validation error without
\* any HTTP request; in get_route_traffic_summary a failed origin geocode
\* returns an error with no destination geocode and no route request.
C26_ServiceFunctionsNeverRaise ==
    CallOver =>
        /\ tpc = "returned"
        /\ tresult.status \in {"success", "error"}
        /\ (tfn = "_geocode_address" /\ Strip(origin_text) = <<>>) =>
              (tresult = ErrorResponse("validation") /\ requests = <<>>)
        /\ (tfn = "get_route_traffic_summary"
              /\ (Strip(origin_text) = <<>> \/ Strip(destination_text) = <<>>)) =>
              (tresult = ErrorResponse("validation") /\ requests = <<>>)
        /\ (tfn = "get_route_traffic_summary" /\ origin_geo.status = "error") =>
              /\ tresult.status = "error"
              /\ dest_geo = NoResult
              /\ Len(requests) <= 1

\* C27: every turn that has posted the placeholder and started the Presenter
\* reaches the first read of the stream: the invoke_agent call with the
\* arguments handle_text passes returns a stream and does not fail.
C27_OpeningTheStreamDoesNotFail ==
    PresenterTasksCreated => (htpc = "first_read" /\ gen = "created")

\* the characters of a text that are not whitespace, in order
NonWhitespace(text) == SelectSeq(text, LAMBDA ch : ch \notin Whitespace)

\* a part that is a str with at least one character that is not whitespace
IsTextBearingPart(p) == p.isStr /\ NonWhitespace(p.text) /= <<>>

\* all characters of the str parts of an event, in order
RECURSIVE AllPartText(_)
AllPartText(parts) ==
    IF parts = <<>> THEN <<>>
    ELSE (IF Head(parts).isStr THEN Head(parts).text ELSE <<>>)
            \o AllPartText(Tail(parts))

\* the event has content with some text that is not blank
BearsText(e) == e.content /\ \E j \in 1..Len(e.parts) : IsTextBearingPart(e.parts[j])

TextBearingParts(e) == Cardinality({j \in 1..Len(e.parts) : IsTextBearingPart(e.parts[j])})

\* text is what the claim says an event's chunk is: not empty, no whitespace
\* around it, the characters of the event's str parts in order, and one
\* blank line (two characters) between two kept parts. (The parts of EventSet
\* hold whitespace only at their ends.)
IsChunkOfEvent(text, e) ==
    /\ BearsText(e)
    /\ text /= <<>>
    /\ Head(text) \notin Whitespace
    /\ text[Len(text)] \notin Whitespace
    /\ NonWhitespace(text) = NonWhitespace(AllPartText(e.parts))
    /\ Len(text) = Len(NonWhitespace(text)) + Len(JoinSep) * (TextBearingParts(e) - 1)

\* the events pulled so far that bear text
TextBearingEvents == {i \in 1..Len(fed) : BearsText(fed[i])}

\* C28: every chunk the stream yields is the non-empty text of one of the
\* events pulled: its str parts trimmed, blank ones dropped, joined by a blank
\* line. Events with no content, no text part or only blank text produce no
\* chunk and do not count as the final response, final marker or not.
C28_ChunksAreTrimmedJoinedText ==
    /\ \A k \in 1..Len(received) :
         \E i \in 1..Len(fed) : IsChunkOfEvent(received[k], fed[i])
    /\ \A k \in 1..Len(emitted) :
         \E i \in 1..Len(fed) : IsChunkOfEvent(emitted[k], fed[i])
    /\ Len(emitted) <= Cardinality(TextBearingEvents)
    /\ final_answer /= NoneMsg =>
         \E i \in 1..Len(fed) : fed[i].final /\ IsChunkOfEvent(final_answer[1], fed[i])

\* the consumer received the chunk of the event with several parts, after a
\* final event without text was pulled
C28_Witness ==
    /\ \E k \in 1..Len(received) : Len(received[k]) = 4
    /\ \E i \in 1..Len(fed) : fed[i].final /\ ~BearsText(fed[i])
    /\ final_answer = NoneMsg
    /\ srcEnd = "exhausted"

\* s is an initial part of t
IsPrefix(s, t) == Len(s) <= Len(t) /\ SubSeq(t, 1, Len(s)) = s

\* the first event that bears text, among those the second worker pulled
FirstTextBearing2 ==
    CHOOSE i \in 1..Len(fed2) :
        BearsText(fed2[i]) /\ \A j \in 1..(i - 1) : ~BearsText(fed2[j])

\* C29: the last emitted text is private to one stream. A second stream given
\* the same events emits its first text whatever the first stream has
\* emitted, and the chunks it has emitted are the chunks the first stream
\* emitted for the same events.
C29_DedupStateIsPerStream ==
    /\ (\E i \in 1..Len(fed2) : BearsText(fed2[i])) =>
          /\ emitted2 /= <<>>
          /\ IsChunkOfEvent(emitted2[1], fed2[FirstTextBearing2])
    /\ IsPrefix(fed2, fed)
    /\ IsPrefix(emitted2, emitted)
    /\ Len(fed2) = Len(fed) => emitted2 = emitted

\* the second worker started after the first had emitted a text and then
\* emitted the same text as its first chunk, the first stream still running
C29_Witness ==
    /\ wpc = "loop"
    /\ previous_message /= NoneMsg
    /\ Len(emitted2) = 1
    /\ Some(emitted2[1]) = previous_message
    /\ Len(fed2) = Len(fed)

\* some part of the turn (handle_text or one of its tasks) can still take a step
TurnCanStep == ENABLED NextTurn

\* C30: every turn terminates: once handle_text has finished, in whatever
\* way, nothing of the turn is left running or waiting (its loops have ended).
C30_FinishedTurnLeavesNothingRunning ==
    TurnOver => ~TurnCanStep

\* the worker thread function has ended without raising
WorkerEndedWithoutError == wpc = "done" /\ ~werr

\* the consumer's first read has ended (no close was made before or since)
FirstReadOver == WorkerStarted /\ call = "none" /\ closeCalls = 0

\* C31: a stream that yields zero chunks never ends cleanly: a worker that
\* ended without error has emitted a chunk, a first read that has ended
\* returned a chunk or failed with the error, and no read ever saw a clean end
\* of stream before a chunk was received.
C31_NoCleanEndWithoutChunks ==
    /\ WorkerEndedWithoutError => Len(emitted) >= 1
    /\ (FirstReadOver /\ received = <<>>) =>
          (lastResult = "error" \/ endKind = "error")
    /\ (StreamEndSeen /\ received = <<>>) => endKind = "error"

\* the source ran out without any text, and the first read failed with the
\* error instead of meeting a clean end
C31_Witness ==
    /\ SourceExhausted
    /\ emitted = <<>>
    /\ FirstReadOver
    /\ endKind = "error"

\* nothing of the stream's machinery has run: no event pulled, nothing emitted
\* or enqueued, no put pending
NothingRan ==
    /\ fed = <<>>
    /\ srcEnd = "none"
    /\ emitted = <<>>
    /\ sentinels = 0
    /\ message_queue = <<>>
    /\ wput = <<>>

\* C32: the stream is lazy. A stream created and not yet read has no worker
\* and nothing has run; the worker is started only by the first read of a
\* stream just created; a stream closed without having been read stays
\* without worker and nothing is ever enqueued.
C32_StreamIsLazy ==
    /\ [](gen = "created" => (~WorkerStarted /\ NothingRan))
    /\ [](~WorkerStarted => NothingRan)
    /\ [][(~WorkerStarted /\ WorkerStarted') =>
            (gen = "created" /\ call = "none" /\ call' = "anext" /\ closeCalls = 0)]_vars
    /\ [][(gen = "created" /\ closeCalls' > closeCalls) =>
            (gen' = "closed" /\ ~WorkerStarted' /\ NothingRan' /\ UNCHANGED sessionExists)]_vars

\* a stream was closed without having been read, and a read made afterwards
\* met the end of the stream at once, with no worker started
C32_Witness ==
    /\ closeCalls >= 1
    /\ ~WorkerStarted
    /\ lastResult = "stop"
    /\ NothingRan

-----------------------------------------------------------------------------
(* C34 *)

\* calls whose _ensure_session has completed
EnsuredCalls == {c \in Callers : ipc[c] \in {"running", "done"}}

\* how many _ensure_session calls stored a session
SessionsCreated == Cardinality({i \in 1..Len(ensureLog) : ensureLog[i] = "created"})

\* C34: _ensure_session is idempotent. Whatever the number and interleaving of
\* invoke_agent calls, once any call has run _ensure_session exactly one
\* session is stored under the fixed identifiers and it was stored once; no
\* call ends by raising; and a call that finds the session existing completes
\* and leaves the stored session exactly as it was.
C34_EnsureSessionIdempotent ==
    /\ [](\A c \in Callers : ipc[c] /= "raised")
    /\ [](EnsuredCalls /= {} =>
            (DOMAIN session_service = {SessionKey} /\ SessionsCreated = 1))
    /\ [](EnsuredCalls = {} => session_service = <<>>)
    /\ [][\A c \in Callers :
            (ipc[c] = "created" /\ ipc'[c] \notin {"created", "closed"}
                /\ SessionKey \in DOMAIN session_service)
            => (ipc'[c] = "running" /\ session_service' = session_service)]_vars

\* three calls have run _ensure_session, the later ones finding the session
\* stored, and the stored session holds events of a run
C34_Witness ==
    /\ Cardinality(EnsuredCalls) >= 3
    /\ Len(ensureLog) >= 3
    /\ ensureLog[1] = "created"
    /\ ensureLog[2] = "exists"
    /\ session_service[SessionKey].events >= 1
    /\ \E c \in Callers : ipc[c] = "running"

-----------------------------------------------------------------------------
(* C35 *)

\* the rows before the call followed by the effect of each write of the call,
\* written out for the at most two writes an operation makes
ApplyWritesInOrder ==
    LET ws == crhist.writes
    IN  IF Len(ws) = 0 THEN crhist.before
        ELSE IF Len(ws) = 1 THEN ApplyWrite(crhist.before, ws[1])
        ELSE ApplyWrite(ApplyWrite(crhist.before, ws[1]), ws[2])

\* C35: every operation wrapped by _with_session ends in one of two ways:
\* committed, and then the database holds the rows from before the call with
\* every write of the operation applied; or failed, and then the database is
\* exactly as before the call and the caller gets None. Either way the
\* session was closed exactly once, is never closed twice, and no exception
\* reaches the caller.
C35_CommitAllOrRollbackAll ==
    /\ crhist.closes <= 1
    /\ ~crout.raised
    /\ crpc = "returned" =>
        /\ crhist.closes = 1
        /\ ~orm.open
        /\ orm.pending = <<>>
        /\ \/ /\ crhist.committed
              /\ db = ApplyWritesInOrder
           \/ /\ ~crhist.committed
              /\ db = crhist.before
              /\ crout.result = "None"

\* log_interaction_by_telegram_id on an empty database failed at commit with
\* two writes pending (the user row and the interaction): nothing was stored
C35_Witness ==
    /\ crpc = "returned"
    /\ crcall.fn = "log_interaction_by_telegram_id"
    /\ Len(crhist.writes) = 2
    /\ ~crhist.committed
    /\ db = <<>>
    /\ crout.result = "None"

-----------------------------------------------------------------------------
(* C36 *)

\* the slot of the thread running the wrapper holds a usable telegram_id
CallingThreadHasId == context[tlcall.thread] \notin {"unset", "none", ""}

\* C36: a wrapper that returns returns exactly its base tool's result, with
\* or without logging and whether or not a log call failed; it starts
\* logging only from the check, and only when the calling thread's own
\* context holds a telegram_id and the base result has status "success", and
\* makes log calls at no other point; and set_user_context in one thread
\* leaves what get_user_context returns in every other thread unchanged.
C36_WrapperReturnsBaseResult ==
    /\ [](tlpc = "returned" => tlreturned = tlbase)
    /\ [][(tlpc /= "log" /\ tlpc' = "log") =>
            (tlpc = "check" /\ CallingThreadHasId /\ tlbase.status = "success")]_vars
    /\ [][logAttempts' /= logAttempts =>
            (logAttempts' = <<>> \/ (tlpc = "log" /\ Truthy(tlid)
                                     /\ tlbase.status = "success"))]_vars
    /\ [][\A t \in Threads :
            context'[t] /= context[t] =>
                \A u \in Threads \ {t} :
                    GetUserContext(context', u) = GetUserContext(context, u)]_vars

\* the route wrapper's second log call failed after the first succeeded, the
\* wrapper still returned the base result, and the other thread has no id
C36_Witness ==
    /\ tlpc = "returned"
    /\ tlcall.tool = "tomtom_route_with_traffic"
    /\ Len(logAttempts) = 2
    /\ logAttempts[2].failed
    /\ tlreturned = tlbase
    /\ tlbase.status = "success"
    /\ \E u \in Threads \ {tlcall.thread} : ~Truthy(GetUserContext(context, u))

-----------------------------------------------------------------------------
(* C38 *)

\* C38: when the update carries no message or no usable telegram id,
\* handle_text only ever returns: nothing is recorded (no user upsert, no
\* interaction), nothing is written to the chat (no placeholder), no
\* Presenter task exists, the stop flag is untouched and no stream is created.
C38_NoEffectWithoutMessageOrId ==
    ~PassesGuards =>
        /\ htpc \in {"entry", "returned"}
        /\ dbLog = <<>>
        /\ chat = <<>>
        /\ status_text = NoMsg
        /\ animpc = "none" /\ typingpc = "none"
        /\ animEdits = 0 /\ typingCalls = 0
        /\ ~stop_event
        /\ gen = "absent" /\ ~WorkerStarted

\* handle_text has returned for an update that has a message but no usable id
C38_Witness ==
    /\ htpc = "returned"
    /\ update.message
    /\ update.telegram_id = 0

-----------------------------------------------------------------------------
(* C37 *)

\* C37: HealthServer.stop is idempotent and main always stops a started
\* server. shutdown(), server_close() and join() are each called at most
\* once, all by the first stop() call, which leaves the server shut down, its
\* socket closed and its thread ended unless one of those calls failed; a
\* stop() call that finds the event set returns in one step and changes
\* nothing of the server; and whenever main has ended, on any exit path, with
\* a health server it had started, a stop() of that server has completed.
C37_StopIdempotentAndAlwaysCalled ==
    /\ [](hcalls.shutdowns <= 1 /\ hcalls.closes <= 1 /\ hcalls.joins <= 1)
    /\ [](hcalls.returned >= 1 =>
            /\ hs.shutdown_event
            /\ hcalls.shutdowns = 1 /\ hcalls.closes = 1 /\ hcalls.joins = 1
            /\ ~hcalls.failed =>
                (~hs.serving /\ ~hs.socket_open /\ ~hs.thread_alive))
    /\ [][(stoppc = "enter" /\ hs.shutdown_event) =>
            (stoppc' = "none" /\ hs' = hs
             /\ hcalls'.shutdowns = hcalls.shutdowns
             /\ hcalls'.closes = hcalls.closes
             /\ hcalls'.joins = hcalls.joins)]_vars
    /\ []((mpc = "exited" /\ health_server = "started") =>
            (hcalls.returned >= 1 /\ hs.shutdown_event /\ stopcaller /= "main"))

\* main ended by re-raising ExternalServiceError with a started server, and
\* stop() was called again afterwards: the server was shut down once
C37_Witness ==
    /\ mpc = "exited"
    /\ mexit.outcome = "ExternalServiceError"
    /\ health_server = "started"
    /\ hcalls.stops >= 2
    /\ hcalls.returned >= 2
    /\ hcalls.shutdowns = 1
    /\ ~hs.serving /\ ~hs.socket_open /\ ~hs.thread_alive

====
